---- MODULE Spec2Model ----
(***************************************************************************)
(* Text Clash Royale (NP-Dat/net-centric-project): the turn-based game     *)
(* engine (internal/game/logic_simple.go, latest revision: the one with    *)
(* offered troop choices and LastAttackedByTroopID, which is the revision  *)
(* internal/server/session.go calls) and the session manager around it.    *)
(***************************************************************************)
EXTENDS Integers, Sequences, FiniteSets, TLC

(***************************************************************************)
(* Bounds of the model.                                                    *)
(***************************************************************************)
\* troop instances created in one match (uuid.New() never repeats)
MaxDeploys == 2
\* player levels drawn at match creation are 1..MaxLevel
MaxLevel == 1
\* levels of the player records settlement is applied to are 1..MaxStartLevel
MaxStartLevel == 3
\* the lowest level of a player record read from a file is 1 - MaxDeficit
MaxDeficit == 2

(***************************************************************************)
(* Identifiers.                                                            *)
(***************************************************************************)
Players == {0, 1}
Threads == {0, 1}
\* the goroutine CreateSession starts: go sm.runGameSession(session)
Starter == 2
NoPlayer == -1
NoTroop == 0
Slots == {"king", "guard1", "guard2"}
NoTower == <<"none", -1>>
TowerID(slot, p) == <<slot, p>>
SlotOf(tid) == tid[1]
OwnerOf(tid) == tid[2]
SpecIDOf(slot) == IF slot = "king" THEN "king_tower" ELSE "guard_tower"
Other(p) == (p + 1) % 2
Levels == 1..MaxLevel

EmptyFn == [x \in {} |-> 0]

\* the orders in which a Go map with key set S can be ranged over
Orders(S) == {s \in [1..Cardinality(S) -> S] : \A i, j \in 1..Cardinality(S) : i # j => s[i] # s[j]}

(***************************************************************************)
(* The unit catalog (config/towers.json, config/troops.json): read-only    *)
(* input of the engine.  The stats are scaled down from the shipped table  *)
(* so that a match is a few actions long; the relations between them       *)
(* (overkill, zero damage, lethal and harmless counterattacks, a heal      *)
(* that is capped and one that is not) are kept.                           *)
(***************************************************************************)
TowerSpecs ==
  [king_tower  |-> [BaseHP |-> 600, BaseATK |-> 500, BaseDEF |-> 300, ExpYield |-> 200],
   guard_tower |-> [BaseHP |-> 300, BaseATK |-> 300, BaseDEF |-> 100, ExpYield |-> 100]]

TroopSpecs ==
  [pawn   |-> [BaseHP |-> 50,  BaseATK |-> 100, BaseDEF |-> 50],
   knight |-> [BaseHP |-> 200, BaseATK |-> 200, BaseDEF |-> 150],
   prince |-> [BaseHP |-> 500, BaseATK |-> 600, BaseDEF |-> 300],
   queen  |-> [BaseHP |-> 0,   BaseATK |-> 0,   BaseDEF |-> 0]]

Units == DOMAIN TroopSpecs
\* what a caller may pass as troop_id: a catalog id, an unknown id, or a
\* value that is not a string
NotAString == "<not-a-string>"
UnitInputs == Units \cup {"ghost", NotAString}
ActionKinds == {"deploy_troop", "other"}

(***************************************************************************)
(* Events returned by ProcessTurn (network.GameEventPayload; the message   *)
(* text is kept as its fields).                                            *)
(***************************************************************************)
Ev(k, troop, tower, n, m) == [k |-> k, troop |-> troop, tower |-> tower, n |-> n, m |-> m]

(***************************************************************************)
(* Pure helpers.                                                           *)
(***************************************************************************)
\* the difference without the floor at 0
CalculateDamage_Signed(attackerATK, defenderDEF) == attackerATK - defenderDEF

\* CalculateDamage
CalculateDamage(attackerATK, defenderDEF) ==
  LET damage == attackerATK - defenderDEF
  IN  IF damage < 0 THEN 0 ELSE damage

\* int(float64(base) * (1.0 + 0.1*float64(level-1)))
LevelScaled(base, level) == (base * (10 + (level - 1))) \div 10

\* game.NewGame
NewGame(l0, l1) ==
  [GameState |-> "WAITING",
   CurrentTurnPlayerIndex |-> 0,
   WinnerID |-> NoPlayer,
   LoserID |-> NoPlayer,
   Level |-> [p \in Players |-> IF p = 0 THEN l0 ELSE l1],
   PTowers |-> [p \in Players |-> {}],
   BTowers |-> {},
   Tower |-> EmptyFn,
   PTroops |-> [p \in Players |-> {}],
   BTroops |-> {},
   Troop |-> EmptyFn]

NewTower(slot, p, level) ==
  LET spec == TowerSpecs[SpecIDOf(slot)]
  IN  [SpecID |-> SpecIDOf(slot),
       CurrentHP |-> LevelScaled(spec.BaseHP, level),
       MaxHP |-> LevelScaled(spec.BaseHP, level),
       ATK |-> LevelScaled(spec.BaseATK, level),
       DEF_ |-> LevelScaled(spec.BaseDEF, level),
       OwnerPlayerID |-> p,
       TargetID |-> NoTroop,
       LastAttackedByTroopID |-> NoTroop]

\* createPlayerTowers: three towers, entered in the player's map and in the board's
createPlayerTowers(g, p) ==
  LET ids == {TowerID(s, p) : s \in Slots}
      objs == [t \in ids |-> NewTower(SlotOf(t), p, g.Level[p])]
  IN  [g EXCEPT !.PTowers[p] = @ \cup ids,
                !.BTowers = @ \cup ids,
                !.Tower = objs @@ @]

\* StartGame + initializeTowers
StartGame(g) ==
  createPlayerTowers(createPlayerTowers([g EXCEPT !.GameState = "RUNNING_SIMPLE"], 0), 1)

(***************************************************************************)
(* Targeting.                                                              *)
(***************************************************************************)
\* the scan with the comparison turned round: the highest CurrentHP
RECURSIVE LowestHP_Highest(_, _, _, _)
LowestHP_Highest(g, possibleTargets, i, lowest) ==
  IF i > Len(possibleTargets) THEN lowest
  ELSE IF g.Tower[possibleTargets[i]].CurrentHP > g.Tower[lowest].CurrentHP
       THEN LowestHP_Highest(g, possibleTargets, i + 1, possibleTargets[i])
       ELSE LowestHP_Highest(g, possibleTargets, i + 1, lowest)

\* the scan over possibleTargets for the lowest CurrentHP (strict <)
RECURSIVE LowestHP(_, _, _, _)
LowestHP(g, possibleTargets, i, lowest) ==
  IF i > Len(possibleTargets) THEN lowest
  ELSE IF g.Tower[possibleTargets[i]].CurrentHP < g.Tower[lowest].CurrentHP
       THEN LowestHP(g, possibleTargets, i + 1, possibleTargets[i])
       ELSE LowestHP(g, possibleTargets, i + 1, lowest)

\* the lowest-HP rule alone, without the guard-1 branch before it
findValidTarget_NoGuardRule(g, opp) ==
  LET mine == g.PTowers[opp]
      alive(t) == t \in mine /\ g.Tower[t].CurrentHP > 0
      one(s) == IF alive(TowerID(s, opp)) THEN <<TowerID(s, opp)>> ELSE <<>>
      possibleTargets == one("guard2") \o one("king")
  IN  IF Len(possibleTargets) = 0 THEN NoTower
      ELSE LowestHP(g, possibleTargets, 2, possibleTargets[1])

\* a search that falls back on the fallen king tower when nothing stands
findValidTarget_Fallen(g, opp) ==
  LET mine == g.PTowers[opp]
      guard1 == TowerID("guard1", opp)
      guard2 == TowerID("guard2", opp)
      king == TowerID("king", opp)
      alive(t) == t \in mine /\ g.Tower[t].CurrentHP > 0
      possibleTargets == (IF alive(guard2) THEN <<guard2>> ELSE <<>>)
                         \o (IF alive(king) THEN <<king>> ELSE <<>>)
  IN  IF alive(guard1) THEN guard1
      ELSE IF Len(possibleTargets) = 0 THEN king
      ELSE LowestHP(g, possibleTargets, 2, possibleTargets[1])

\* findValidTarget(opponent)
findValidTarget(g, opp) ==
  LET mine == g.PTowers[opp]
      guard1 == TowerID("guard1", opp)
      guard2 == TowerID("guard2", opp)
      king == TowerID("king", opp)
      alive(t) == t \in mine /\ g.Tower[t].CurrentHP > 0
      possibleTargets == (IF alive(guard2) THEN <<guard2>> ELSE <<>>)
                         \o (IF alive(king) THEN <<king>> ELSE <<>>)
  IN  IF alive(guard1) THEN guard1
      ELSE IF Len(possibleTargets) = 0 THEN NoTower
      ELSE LowestHP(g, possibleTargets, 2, possibleTargets[1])

\* the owner of the fallen king reported as the winner
checkGameOver_OwnerWins(g) ==
  LET dead(p) == TowerID("king", p) \in g.BTowers /\ g.Tower[TowerID("king", p)].CurrentHP <= 0
  IN  IF dead(0) THEN [over |-> TRUE, winner |-> 0, loser |-> Other(0)]
      ELSE IF dead(1) THEN [over |-> TRUE, winner |-> 1, loser |-> Other(1)]
      ELSE [over |-> FALSE, winner |-> NoPlayer, loser |-> NoPlayer]

\* checkGameOver: the first player (index order) whose king is at 0 HP loses
checkGameOver(g) ==
  LET dead(p) == TowerID("king", p) \in g.BTowers /\ g.Tower[TowerID("king", p)].CurrentHP <= 0
  IN  IF dead(0) THEN [over |-> TRUE, winner |-> Other(0), loser |-> 0]
      ELSE IF dead(1) THEN [over |-> TRUE, winner |-> Other(1), loser |-> 1]
      ELSE [over |-> FALSE, winner |-> NoPlayer, loser |-> NoPlayer]

(***************************************************************************)
(* Deployment and healing.                                                 *)
(***************************************************************************)
Result(err, g, ev) == [err |-> err, g |-> g, ev |-> ev]

NewTroop(troopID, p, level, target) ==
  LET spec == TroopSpecs[troopID]
  IN  [SpecID |-> troopID,
       CurrentHP |-> LevelScaled(spec.BaseHP, level),
       MaxHP |-> LevelScaled(spec.BaseHP, level),
       ATK |-> LevelScaled(spec.BaseATK, level),
       DEF_ |-> LevelScaled(spec.BaseDEF, level),
       OwnerPlayerID |-> p,
       TargetID |-> target]

\* a deployment that does not look at what was offered
ChoiceError_None(offeredChoices, troopID) == ""

\* a validation that only asks whether anything was offered
ChoiceError_EmptyOnly(offeredChoices, troopID) ==
  IF offeredChoices = {} THEN "troop choices not available" ELSE ""

\* a validation that lets the queen through whether offered or not
ChoiceError_QueenAlways(offeredChoices, troopID) ==
  IF offeredChoices = {} THEN "troop choices not available"
  ELSE IF troopID \notin offeredChoices \cup {"queen"} THEN "invalid troop choice"
  ELSE ""

\* the validation of the troop id against player.OfferedTroopChoices
ChoiceError(offeredChoices, troopID) ==
  IF offeredChoices = {} THEN "troop choices not available"
  ELSE IF troopID \notin offeredChoices THEN "invalid troop choice"
  ELSE ""

\* a deployment that puts the queen on the board like any other unit
deployTroop_QueenTroop(g, offeredChoices, p, opp, troopID, instanceID) ==
  IF ChoiceError(offeredChoices, troopID) # ""
    THEN Result(ChoiceError(offeredChoices, troopID), g, <<>>)
  ELSE IF troopID \notin DOMAIN TroopSpecs
    THEN Result("troop spec not found", g, <<>>)
  ELSE
    LET targetTower == findValidTarget(g, opp)
        troop == NewTroop(troopID, p, g.Level[p], targetTower)
        g1 == [g EXCEPT !.PTroops[p] = @ \cup {instanceID},
                        !.BTroops = @ \cup {instanceID},
                        !.Troop = (instanceID :> troop) @@ @]
    IN  Result("", g1,
               <<Ev("deploy", instanceID, NoTower, p, troopID),
                 Ev(IF targetTower # NoTower THEN "target" ELSE "notarget",
                    instanceID, targetTower, 0, 0)>>)

\* deployTroop(player, opponent, troopID); instanceID is uuid.New()
deployTroop(g, offeredChoices, p, opp, troopID, instanceID) ==
  IF ChoiceError(offeredChoices, troopID) # ""
    THEN Result(ChoiceError(offeredChoices, troopID), g, <<>>)
  ELSE IF troopID \notin DOMAIN TroopSpecs
    THEN Result("troop spec not found", g, <<>>)
  ELSE IF troopID = "queen"
    THEN Result("", g, <<Ev("deploy", NoTroop, NoTower, p, troopID)>>)
  ELSE
    LET targetTower == findValidTarget(g, opp)
        troop == NewTroop(troopID, p, g.Level[p], targetTower)
        g1 == [g EXCEPT !.PTroops[p] = @ \cup {instanceID},
                        !.BTroops = @ \cup {instanceID},
                        !.Troop = (instanceID :> troop) @@ @]
    IN  Result("", g1,
               <<Ev("deploy", instanceID, NoTower, p, troopID),
                 Ev(IF targetTower # NoTower THEN "target" ELSE "notarget",
                    instanceID, targetTower, 0, 0)>>)

HealAmount == 300

\* a queen that halves the HP instead of adding to it
HealedHP_Drain(currentHP, maxHP) == currentHP \div 2

\* the capped heal of processQueenHealing
HealedHP(currentHP, maxHP) ==
  IF currentHP + HealAmount > maxHP THEN maxHP ELSE currentHP + HealAmount

\* the scan with absolute HP in place of the percentage
RECURSIVE LowestPercentage_Absolute(_, _, _, _, _, _)
LowestPercentage_Absolute(g, order, i, lowest, lowNum, lowDen) ==
  IF i > Len(order) THEN lowest
  ELSE
    LET tower == g.Tower[order[i]]
    IN  IF tower.CurrentHP <= 0
          THEN LowestPercentage_Absolute(g, order, i + 1, lowest, lowNum, lowDen)
        ELSE IF (lowest = NoTower /\ tower.CurrentHP < tower.MaxHP)
                \/ (lowest # NoTower /\ tower.CurrentHP < lowNum)
          THEN LowestPercentage_Absolute(g, order, i + 1, order[i], tower.CurrentHP, tower.MaxHP)
        ELSE LowestPercentage_Absolute(g, order, i + 1, lowest, lowNum, lowDen)

\* the scan that does not pass over destroyed towers
RECURSIVE LowestPercentage_Destroyed(_, _, _, _, _, _)
LowestPercentage_Destroyed(g, order, i, lowest, lowNum, lowDen) ==
  IF i > Len(order) THEN lowest
  ELSE
    LET tower == g.Tower[order[i]]
    IN  IF lowNum * tower.MaxHP > tower.CurrentHP * lowDen
          THEN LowestPercentage_Destroyed(g, order, i + 1, order[i], tower.CurrentHP, tower.MaxHP)
        ELSE LowestPercentage_Destroyed(g, order, i + 1, lowest, lowNum, lowDen)

\* the scan of processQueenHealing for the lowest HP percentage: order is
\* the order in which player.Towers is ranged over, lowest the tower found
\* so far, (lowNum, lowDen) its percentage as a fraction (100.0 = 1/1)
RECURSIVE LowestPercentage(_, _, _, _, _, _)
LowestPercentage(g, order, i, lowest, lowNum, lowDen) ==
  IF i > Len(order) THEN lowest
  ELSE
    LET tower == g.Tower[order[i]]
    IN  IF tower.CurrentHP <= 0
          THEN LowestPercentage(g, order, i + 1, lowest, lowNum, lowDen)
        ELSE IF lowNum * tower.MaxHP > tower.CurrentHP * lowDen
          THEN LowestPercentage(g, order, i + 1, order[i], tower.CurrentHP, tower.MaxHP)
        ELSE LowestPercentage(g, order, i + 1, lowest, lowNum, lowDen)

\* processQueenHealing(player)
processQueenHealing(g, p, order) ==
  LET lowestHPTower == LowestPercentage(g, order, 1, NoTower, 1, 1)
  IN  IF lowestHPTower = NoTower THEN Result("", g, <<>>)
      ELSE
        LET beforeHP == g.Tower[lowestHPTower].CurrentHP
            afterHP == HealedHP(beforeHP, g.Tower[lowestHPTower].MaxHP)
        IN  Result("", [g EXCEPT !.Tower[lowestHPTower].CurrentHP = afterHP],
                   <<Ev("heal", NoTroop, lowestHPTower, afterHP - beforeHP, afterHP)>>)

(***************************************************************************)
(* Attacks.                                                                *)
(***************************************************************************)
\* the subtraction without the clamp
DamagedHP_Unclamped(currentHP, damage) == currentHP - damage

\* targetTower.CurrentHP -= damage, then the clamp of a destroyed tower to 0
DamagedHP(currentHP, damage) ==
  IF currentHP - damage <= 0 THEN 0 ELSE currentHP - damage

\* one attack per troop and call, whatever it did
AfterAttack_Once(destroyed, gameOver) == "stop"

\* what one troop does after its attack: "again" (the tower was destroyed
\* and the game is not over), "stop" otherwise
AfterAttack(destroyed, gameOver) ==
  IF destroyed /\ ~gameOver THEN "again" ELSE "stop"

\* the attack loop of one troop (for troop.CurrentHP > 0 { ... })
RECURSIVE troopAttackLoop(_, _, _, _)
troopAttackLoop(g, ev, opp, id) ==
  IF g.Troop[id].CurrentHP <= 0 THEN Result("", g, ev)
  ELSE
    LET troop == g.Troop[id]
        stale == troop.TargetID \notin g.BTowers
                 \/ g.Tower[troop.TargetID].CurrentHP <= 0
        newTarget == findValidTarget(g, opp)
    IN  IF stale /\ newTarget = NoTower
          THEN Result("", [g EXCEPT !.Troop[id].TargetID = NoTower],
                      Append(ev, Ev("notarget", id, NoTower, 0, 0)))
        ELSE
          LET target == IF stale THEN newTarget ELSE troop.TargetID
              ev1 == IF stale THEN Append(ev, Ev("retarget", id, target, 0, 0)) ELSE ev
              damage == CalculateDamage(troop.ATK, g.Tower[target].DEF_)
              originalTowerHP == g.Tower[target].CurrentHP
              recorded == damage > 0 \/ (damage = 0 /\ troop.ATK > 0)
              newHP == DamagedHP(originalTowerHP, damage)
              g1 == [g EXCEPT !.Troop[id].TargetID = target,
                              !.Tower[target].CurrentHP = newHP,
                              !.Tower[target].LastAttackedByTroopID =
                                 IF recorded THEN id ELSE @]
              ev2 == Append(ev1, Ev("attack", id, target, damage, originalTowerHP - damage))
              destroyed == originalTowerHP - damage <= 0
              ev3 == IF destroyed THEN Append(ev2, Ev("destroyed", id, target, 0, 0)) ELSE ev2
          IN  IF AfterAttack(destroyed, checkGameOver(g1).over) = "again"
                THEN troopAttackLoop(g1, ev3, opp, id)
                ELSE Result("", g1, ev3)

\* processTroopAttacks(player, opponent): order is the order in which
\* player.ActiveTroops is ranged over, aged the troops whose DeployedTime
\* lies at least the threshold back
RECURSIVE processTroopAttacks(_, _, _, _, _, _)
processTroopAttacks(g, ev, opp, order, i, aged) ==
  IF i > Len(order) THEN Result("", g, ev)
  ELSE IF order[i] \notin aged
    THEN processTroopAttacks(g, ev, opp, order, i + 1, aged)
  ELSE
    LET r == troopAttackLoop(g, ev, opp, order[i])
    IN  processTroopAttacks(r.g, r.ev, opp, order, i + 1, aged)

(***************************************************************************)
(* Counterattacks and cleanup.                                             *)
(***************************************************************************)
\* towers that never strike back
processTowerCounterattacks_None(g, ev, p, order, i) == Result("", g, ev)

\* counterattacks that wear down the standing towers instead of the troops
processTowerCounterattacks_HitsTowers(g, ev, p, order, i) ==
  Result("", [g EXCEPT !.Tower = [t \in DOMAIN g.Tower |->
                         [g.Tower[t] EXCEPT !.CurrentHP = IF @ > 0 THEN @ - 1 ELSE @]]],
         ev)

\* processTowerCounterattacks(player, opponent): order is the order in
\* which opponent.Towers is ranged over
RECURSIVE processTowerCounterattacks(_, _, _, _, _)
processTowerCounterattacks(g, ev, p, order, i) ==
  IF i > Len(order) THEN Result("", g, ev)
  ELSE IF g.Tower[order[i]].CurrentHP <= 0
    THEN processTowerCounterattacks(g, ev, p, order, i + 1)
  ELSE
    LET tower == order[i]
        lastAttackerTroopID == g.Tower[tower].LastAttackedByTroopID
        g1 == [g EXCEPT !.Tower[tower].LastAttackedByTroopID = NoTroop]
    IN  IF lastAttackerTroopID = NoTroop
             \/ lastAttackerTroopID \notin g1.BTroops
             \/ g1.Troop[lastAttackerTroopID].OwnerPlayerID # p
             \/ g1.Troop[lastAttackerTroopID].CurrentHP <= 0
          THEN processTowerCounterattacks(g1, ev, p, order, i + 1)
        ELSE
          LET targetTroop == g1.Troop[lastAttackerTroopID]
              damage == CalculateDamage(g1.Tower[tower].ATK, targetTroop.DEF_)
              rawHP == targetTroop.CurrentHP - damage
              g2 == [g1 EXCEPT !.Troop[lastAttackerTroopID].CurrentHP =
                                  IF rawHP <= 0 THEN 0 ELSE rawHP]
              ev1 == Append(ev, Ev("counter", lastAttackerTroopID, tower, damage, rawHP))
              ev2 == IF rawHP <= 0
                       THEN Append(ev1, Ev("defeated", lastAttackerTroopID, tower, 0, 0))
                       ELSE ev1
          IN  processTowerCounterattacks(g2, ev2, p, order, i + 1)

\* a cleanup that takes dead troops from their owner's map only
cleanupDefeatedUnits_PlayerOnly(g) ==
  [g EXCEPT !.PTroops = [p \in Players |->
                           {id \in g.PTroops[p] : g.Troop[id].CurrentHP > 0}]]

\* a cleanup that removes nothing
cleanupDefeatedUnits_Keep(g) == g

\* cleanupDefeatedUnits(player1, player2): troops at HP <= 0 leave their
\* owner's map and the board's; a tower TargetID naming them is cleared
cleanupDefeatedUnits(g) ==
  LET dead(p) == {id \in g.PTroops[p] : g.Troop[id].CurrentHP <= 0}
      gone == dead(0) \cup dead(1)
      keptP == [p \in Players |-> g.PTroops[p] \ dead(p)]
      keptB == g.BTroops \ gone
      live == keptB \cup keptP[0] \cup keptP[1]
  IN  [g EXCEPT !.PTroops = keptP,
                !.BTroops = keptB,
                !.Troop = [id \in live |-> g.Troop[id]],
                !.Tower = [t \in DOMAIN g.Tower |->
                             IF g.Tower[t].TargetID \in dead(Other(OwnerOf(t)))
                               THEN [g.Tower[t] EXCEPT !.TargetID = NoTroop]
                               ELSE g.Tower[t]]]

\* a turn pointer that stays where it is
nextTurn_Stay(g) == g

\* nextTurn
nextTurn(g) == [g EXCEPT !.CurrentTurnPlayerIndex = (g.CurrentTurnPlayerIndex + 1) % 2]

\* the game-over branch of ProcessTurn
Finish(g, over) ==
  [g EXCEPT !.GameState = "FINISHED", !.WinnerID = over.winner, !.LoserID = over.loser]

(***************************************************************************)
(* ProcessTurn, in the three stretches it runs under Game.Mutex.           *)
(***************************************************************************)
\* the turn check never fires
NotYourTurn_Never(g, playerIndex) == FALSE

\* the turn check of ProcessTurn
NotYourTurn(g, playerIndex) == g.CurrentTurnPlayerIndex # playerIndex

\* the entry checks without the state check
EntryError_TurnOnly(g, playerIndex) ==
  IF NotYourTurn(g, playerIndex) THEN "not your turn" ELSE ""

\* the two entry checks of ProcessTurn, in the order the code makes them
EntryError(g, playerIndex) ==
  IF NotYourTurn(g, playerIndex) THEN "not your turn"
  ELSE IF g.GameState # "RUNNING_SIMPLE" THEN "game is not running in simple mode"
  ELSE ""

\* ProcessTurn from its entry checks to the end of `switch action`
ProcessTurnAction(g, offeredChoices, playerIndex, action, data, instanceID, healOrder) ==
  IF EntryError(g, playerIndex) # "" THEN Result(EntryError(g, playerIndex), g, <<>>)
  ELSE IF action # "deploy_troop" THEN Result("invalid action for Simple Mode", g, <<>>)
  ELSE IF data = NotAString THEN Result("invalid troop ID in action data", g, <<>>)
  ELSE
    LET d == deployTroop(g, offeredChoices, playerIndex, Other(playerIndex), data, instanceID)
    IN  IF d.err # "" THEN Result("failed to deploy troop: " \o d.err, g, <<>>)
        ELSE IF data = "queen"
          THEN LET h == processQueenHealing(d.g, playerIndex, healOrder)
               IN  Result("", h.g, d.ev \o h.ev)
        ELSE Result("", d.g, d.ev)

\* ProcessTurn: processTroopAttacks and the first game-over check
ProcessTurnAttacks(g, playerIndex, order, aged) ==
  LET a == processTroopAttacks(g, <<>>, Other(playerIndex), order, 1, aged)
      over == checkGameOver(a.g)
  IN  IF over.over
        THEN [over |-> TRUE, g |-> Finish(a.g, over),
              ev |-> Append(a.ev, Ev("gameover", NoTroop, NoTower, over.winner, 0))]
        ELSE [over |-> FALSE, g |-> a.g, ev |-> a.ev]

\* ProcessTurn: counterattacks, cleanup, second game-over check, nextTurn
ProcessTurnCounter(g, playerIndex, order) ==
  LET c == processTowerCounterattacks(g, <<>>, playerIndex, order, 1)
      g1 == cleanupDefeatedUnits(c.g)
      over == checkGameOver(g1)
  IN  IF over.over
        THEN [over |-> TRUE, g |-> Finish(g1, over),
              ev |-> Append(c.ev, Ev("gameover", NoTroop, NoTower, over.winner, 0))]
        ELSE [over |-> FALSE, g |-> nextTurn(g1),
              ev |-> Append(c.ev, Ev("turn", NoTroop, NoTower, nextTurn(g1).CurrentTurnPlayerIndex, 0))]

\* GenerateAndStoreTroopChoices: the lists of min(3, catalog size) distinct
\* units a shuffle can put first (only membership is used afterwards)
ChoiceSets ==
  LET numChoices == IF Cardinality(Units) < 3 THEN Cardinality(Units) ELSE 3
  IN  {S \in SUBSET Units : Cardinality(S) = numChoices}

(***************************************************************************)
(* State.                                                                  *)
(***************************************************************************)
VARIABLES
  game,      \* the Game object of the match
  offered,   \* PlayerInGame.OfferedTroopChoices of the two players ({} = nil)
  aged,      \* troop instances deployed at least the attack threshold ago
  uuid,      \* number of troop instance ids handed out
  session,   \* whether SessionManager.sessions holds the match
  ret,       \* the last ProcessTurn call: its playerIndex and what it returned
  mutex,     \* holder of Game.Mutex, or Free
  pc,        \* where each goroutine is
  args,      \* the ProcessTurn call a goroutine is in: arguments and locals
  probe,     \* result of the last application of a pure function
  resp,      \* the last accepted action and who has been sent its response
  playerData,\* the persisted PlayerData (EXP, Level) of the two players
  gameOver,  \* the game-over payloads sent to each player, in order
  stalled,   \* the players whose connection no longer takes data
  server     \* the lobby: connected clients, active users, waiting pool

vars == <<game, offered, aged, uuid, session, ret, mutex, pc, args, probe, resp,
         playerData, gameOver, stalled, server>>
(***************************************************************************)
(* The lobby of the server: connections, logins and the waiting pool.      *)
(***************************************************************************)
MaxClients == 3
MaxGames == 2
\* the ids generateID hands to accepted connections, in order
ClientIDs == 1..MaxClients
NoClient == 0
Usernames == {"ann", "bob"}
Passwords == {"pw"}
\* a server that has started: nobody connected, no stored account
NewServer ==
  [clients     |-> {},
   Username    |-> [c \in ClientIDs |-> ""],
   GameID      |-> [c \in ClientIDs |-> 0],
   accepted    |-> 0,
   accounts    |-> [u \in Usernames |-> ""],
   activeUsers |-> [u \in Usernames |-> NoClient],
   waitingPool |-> <<>>,
   gameCounter |-> 0,
   started     |-> <<>>]

\* what the goroutines of the concurrent specifications own
threadVars == <<mutex, pc, args>>

Free == -1
\* a goroutine outside ProcessTurn: no arguments, no locals; seen is the
\* Match State a call read on entry, made the one it produced, over the
\* game-over payloads handleGameOver built
NoArgs == [playerIndex |-> NoPlayer, action |-> "", data |-> "", err |-> "", ev |-> <<>>,
           seen |-> <<>>, made |-> <<>>, over |-> <<>>]
NoProbe == [fn |-> "", opp |-> NoPlayer, out |-> NoTower]
\* no action accepted yet: nothing is owed to anybody
NoResp == [by |-> NoPlayer, ev |-> <<>>, made |-> <<>>, evTo |-> Players, stateTo |-> Players]
NoRet == [playerIndex |-> NoPlayer, err |-> "", ev |-> <<>>]
Returned(in, err, ev) == [playerIndex |-> in.playerIndex, err |-> err, ev |-> ev]

\* what callers pass: every player index and unit input with deploy_troop,
\* and one representative call of another action kind
Inputs ==
  {in \in [playerIndex : Players, action : ActionKinds, data : UnitInputs] :
     in.action # "deploy_troop" => in.data = "ghost"}

(***************************************************************************)
(* Progression: the experience a match earns and the level-ups it buys.    *)
(***************************************************************************)
RECURSIVE Pow(_, _)
Pow(b, e) == IF e <= 0 THEN 1 ELSE b * Pow(b, e - 1)

\* a requirement of 0 on every level
CalculateRequiredExp_Free(currentLevel) == 0

\* models.CalculateRequiredExp: int(100 * 1.1^(currentLevel-1)), 0 below
\* level 1 (the float product truncates to this quotient on levels 1..14)
CalculateRequiredExp(currentLevel) ==
  IF currentLevel < 1 THEN 0
  ELSE (100 * Pow(11, currentLevel - 1)) \div Pow(10, currentLevel - 1)

\* the level-up loop with the excess thrown away
RECURSIVE LevelUp_DropExcess(_)
LevelUp_DropExcess(data) ==
  IF data.EXP >= CalculateRequiredExp(data.Level)
    THEN LevelUp_DropExcess([Level |-> data.Level + 1, EXP |-> 0])
    ELSE data

\* handleGameOver, the loop "for { requiredExp := CalculateRequiredExp(Level);
\* if EXP >= requiredExp { Level++; EXP -= requiredExp } else { break } }"
RECURSIVE LevelUp(_)
LevelUp(data) ==
  IF data.EXP >= CalculateRequiredExp(data.Level)
    THEN LevelUp([Level |-> data.Level + 1, EXP |-> data.EXP - CalculateRequiredExp(data.Level)])
    ELSE data

RECURSIVE SumExpYield(_, _)
SumExpYield(g, towers) ==
  IF towers = {} THEN 0
  ELSE LET t == CHOOSE x \in towers : TRUE
       IN  TowerSpecs[g.Tower[t].SpecID].ExpYield + SumExpYield(g, towers \ {t})

\* calculateDestroyedTowerExp: the ExpYield of every board tower of the
\* opponent with CurrentHP <= 0
calculateDestroyedTowerExp(g, opponentPlayerID) ==
  SumExpYield(g, {t \in g.BTowers : /\ g.Tower[t].OwnerPlayerID = opponentPlayerID
                                    /\ g.Tower[t].CurrentHP <= 0})

\* handleGameOver, lines "Calculate EXP" to SavePlayerData: the earned EXP
\* is added to the loaded record, the level-up loop runs, the record is saved
SettledData(g, data) ==
  [p \in Players |->
     LevelUp([Level |-> data[p].Level,
              EXP |-> data[p].EXP + calculateDestroyedTowerExp(g, Other(p))])]

\* network.GameOverPayload as handleGameOver builds it for player p from
\* the record it loaded (before) and the record it saved (after)
GameOverPayload(g, before, after, p) ==
  [Winner |-> g.WinnerID,
   Reason |-> IF g.WinnerID # NoPlayer THEN "King Tower destroyed"
              ELSE "Game ended (unknown reason)",
   ExpEarned |-> calculateDestroyedTowerExp(g, Other(p)),
   NewTotalExp |-> after[p].EXP,
   NewLevel |-> after[p].Level,
   LeveledUp |-> after[p].Level # before[p].Level]

\* the PlayerData files as the match finds them: the level the players
\* entered the match with (GetPlayerData in CreateSession), no EXP yet
NewPlayerData(g) == [p \in Players |-> [EXP |-> 0, Level |-> g.Level[p]]]

Init ==
  /\ \E l0, l1 \in Levels : game = NewGame(l0, l1)
  /\ offered = [p \in Players |-> {}]
  /\ aged = {}
  /\ uuid = 0
  /\ session = FALSE
  /\ ret = NoRet
  /\ mutex = Free
  /\ pc = [c \in Threads \cup {Starter} |-> "idle"]
  /\ args = [c \in Threads |-> NoArgs]
  /\ probe = NoProbe
  /\ resp = NoResp
  /\ playerData = NewPlayerData(game)
  /\ gameOver = [p \in Players |-> <<>>]
  /\ stalled = {}
  /\ server = NewServer

(***************************************************************************)
(* Actions of the engine, one ProcessTurn call at a time.                  *)
(***************************************************************************)
\* SessionManager.CreateSession: NewGame is followed by StartGame and the
\* session is stored
CreateSession ==
  /\ ~session
  /\ game.GameState = "WAITING"
  /\ game' = StartGame(game)
  /\ session' = TRUE
  /\ UNCHANGED <<offered, aged, uuid, ret, threadVars, probe, resp, playerData, gameOver, stalled, server>>

\* sendTroopChoicesToCurrentPlayer -> GenerateAndStoreTroopChoices for the
\* current-turn player of a running game (takes no lock)
GenerateChoices ==
  /\ game.GameState = "RUNNING_SIMPLE"
  /\ \E S \in ChoiceSets :
       offered' = [offered EXCEPT ![game.CurrentTurnPlayerIndex] = S]
  /\ offered' # offered
  /\ UNCHANGED <<game, aged, uuid, session, ret, threadVars, probe, resp, playerData, gameOver, stalled, server>>

\* real time passes between two calls: every troop on the board is now
\* older than the threshold of processTroopAttacks
Elapse ==
  /\ mutex = Free
  /\ aged # 1..uuid
  /\ aged' = 1..uuid
  /\ UNCHANGED <<game, offered, uuid, session, ret, threadVars, probe, resp, playerData, gameOver, stalled, server>>

\* the orders of player.Towers that processQueenHealing may range over
\* (nothing is ranged over unless the queen is deployed)
HealOrders(g, in) ==
  IF in.data = "queen" THEN Orders(g.PTowers[in.playerIndex]) ELSE {<<>>}

\* what the three stretches of ProcessTurn can make of a state, over the
\* orders in which the maps may be ranged over
ActionOutcomes(g, offeredChoices, in, instanceID) ==
  {ProcessTurnAction(g, offeredChoices, in.playerIndex, in.action, in.data, instanceID, healOrder) :
     healOrder \in HealOrders(g, in)}
AttackOutcomes(g, p, old) ==
  {ProcessTurnAttacks(g, p, troopOrder, old) : troopOrder \in Orders(g.PTroops[p])}
CounterOutcomes(g, p) ==
  {ProcessTurnCounter(g, p, towerOrder) : towerOrder \in Orders(g.PTowers[Other(p)])}

\* the call hands out a troop instance id
Creates(in, a) == a.err = "" /\ in.data # "queen"

\* one whole ProcessTurn(playerIndex, action, {"troop_id": data}) call:
\* Lock, the three stretches in sequence, Unlock
CallProcessTurn(in) ==
  /\ mutex = Free
  /\ \E a \in ActionOutcomes(game, offered[in.playerIndex], in, uuid + 1) :
       IF a.err # ""
         THEN /\ ret' = Returned(in, a.err, <<>>)
              /\ UNCHANGED <<game, offered, uuid>>
         ELSE /\ Creates(in, a) => uuid < MaxDeploys
              /\ uuid' = IF Creates(in, a) THEN uuid + 1 ELSE uuid
              /\ offered' = [offered EXCEPT ![in.playerIndex] = {}]
              /\ \E b \in AttackOutcomes(a.g, in.playerIndex, aged) :
                   IF b.over
                     THEN /\ game' = b.g
                          /\ ret' = Returned(in, "", a.ev \o b.ev)
                     ELSE \E c \in CounterOutcomes(b.g, in.playerIndex) :
                            /\ game' = c.g
                            /\ ret' = Returned(in, "", a.ev \o b.ev \o c.ev)
  /\ UNCHANGED <<aged, session, threadVars, probe, resp, playerData, gameOver, stalled, server>>

\* SessionManager.EndSession: an exported method that ends the session of
\* a match whether it is over or not (handleGameOver calls it once the
\* match is finished); it takes sessionsMutex, not Game.Mutex
EndSession ==
  /\ session
  /\ mutex = Free
  /\ session' = FALSE
  /\ game' = IF game.GameState # "FINISHED" THEN [game EXCEPT !.GameState = "FINISHED"] ELSE game
  /\ UNCHANGED <<offered, aged, uuid, ret, threadVars, probe, resp, playerData, gameOver, stalled, server>>

Next ==
  \/ CreateSession
  \/ GenerateChoices
  \/ Elapse
  \/ \E in \in Inputs : CallProcessTurn(in)
  \/ EndSession

Spec == Init /\ [][Next]_vars

(***************************************************************************)
(* ProcessTurn under Game.Mutex, called from the two players' connection   *)
(* goroutines: goroutine c passes playerIndex c.  Each call is the steps   *)
(* Lock, the three stretches of the body, Unlock.                          *)
(***************************************************************************)
\* the unit ids the two goroutines pass
LockUnits == {"prince", "queen", "ghost"}

\* a Lock that returns at once, whoever holds the mutex
CanLock_Always(m) == TRUE

\* sync.Mutex.Lock returns only when nobody holds the mutex
CanLock(m) == m = Free

\* goroutine c calls ProcessTurn(c, "deploy_troop", {"troop_id": data})
Call(c, data) ==
  /\ pc[c] = "idle"
  /\ session
  /\ pc' = [pc EXCEPT ![c] = "lock"]
  /\ args' = [args EXCEPT ![c] = [NoArgs EXCEPT !.playerIndex = c,
                                                !.action = "deploy_troop",
                                                !.data = data]]
  /\ UNCHANGED <<game, offered, aged, uuid, session, ret, mutex, probe, resp, playerData, gameOver, stalled, server>>

\* h.game.Mutex.Lock()
Lock(c) ==
  /\ pc[c] = "lock"
  /\ CanLock(mutex)
  /\ mutex' = c
  /\ pc' = [pc EXCEPT ![c] = "action"]
  /\ UNCHANGED <<game, offered, aged, uuid, session, ret, args, probe, resp, playerData, gameOver, stalled, server>>

\* the entry checks and `switch action`; the call reads the Match State
\* for the first time
Action(c) ==
  /\ pc[c] = "action"
  /\ \E a \in ActionOutcomes(game, offered[c], args[c], uuid + 1) :
       \E entry \in {[game |-> game, offered |-> offered[c], id |-> uuid + 1]} :
         IF a.err # ""
           THEN /\ args' = [args EXCEPT ![c].err = a.err, ![c].seen = entry]
                /\ pc' = [pc EXCEPT ![c] = "unlock"]
                /\ UNCHANGED <<game, offered, uuid>>
           ELSE /\ Creates(args[c], a) => uuid < MaxDeploys
                /\ uuid' = IF Creates(args[c], a) THEN uuid + 1 ELSE uuid
                /\ offered' = [offered EXCEPT ![c] = {}]
                /\ game' = a.g
                /\ args' = [args EXCEPT ![c].ev = a.ev, ![c].seen = entry]
                /\ pc' = [pc EXCEPT ![c] = "attacks"]
  /\ UNCHANGED <<aged, session, ret, mutex, probe, resp, playerData, gameOver, stalled, server>>

\* processTroopAttacks and the first checkGameOver
Attacks(c) ==
  /\ pc[c] = "attacks"
  /\ \E b \in AttackOutcomes(game, c, aged) :
       /\ game' = b.g
       /\ args' = [args EXCEPT ![c].ev = @ \o b.ev]
       /\ pc' = [pc EXCEPT ![c] = IF b.over THEN "unlock" ELSE "counter"]
  /\ UNCHANGED <<offered, aged, uuid, session, ret, mutex, probe, resp, playerData, gameOver, stalled, server>>

\* processTowerCounterattacks, cleanupDefeatedUnits, the second
\* checkGameOver and nextTurn
Counter(c) ==
  /\ pc[c] = "counter"
  /\ \E x \in CounterOutcomes(game, c) :
       /\ game' = x.g
       /\ args' = [args EXCEPT ![c].ev = @ \o x.ev]
       /\ pc' = [pc EXCEPT ![c] = "unlock"]
  /\ UNCHANGED <<offered, aged, uuid, session, ret, mutex, probe, resp, playerData, gameOver, stalled, server>>

\* the deferred h.game.Mutex.Unlock() and the return: the goroutine drops
\* what the call returned
Unlock(c) ==
  /\ pc[c] = "unlock"
  /\ mutex' = Free
  /\ pc' = [pc EXCEPT ![c] = "idle"]
  /\ args' = [args EXCEPT ![c] = NoArgs]
  /\ UNCHANGED <<game, offered, aged, uuid, session, ret, probe, resp, playerData, gameOver, stalled, server>>

NextLock ==
  \/ CreateSession
  \/ GenerateChoices
  \/ Elapse
  \/ \E c \in Threads : \E data \in LockUnits : Call(c, data)
  \/ \E c \in Threads : Lock(c)
  \/ \E c \in Threads : Action(c)
  \/ \E c \in Threads : Attacks(c)
  \/ \E c \in Threads : Counter(c)
  \/ \E c \in Threads : Unlock(c)

SpecLock == Init /\ [][NextLock]_vars

(***************************************************************************)
(* The session manager: HandleDeployTroop run by the two players'          *)
(* connection goroutines (goroutine h serves player h) and the goroutine   *)
(* CreateSession starts.  ProcessTurn is one step here: it runs under      *)
(* Game.Mutex.  Codec.Send is a synchronous conn.Write: a message is       *)
(* delivered when Send returns.  Early returns that send or change nothing *)
(* are not steps.                                                          *)
(***************************************************************************)
\* the troop ids the clients send
ServerUnits == Units \cup {"ghost"}

\* CreateSession: NewGame, StartGame, the session is stored and
\* `go sm.runGameSession(session)`
StartSession ==
  /\ ~session
  /\ game.GameState = "WAITING"
  /\ pc[Starter] = "idle"
  /\ game' = StartGame(game)
  /\ session' = TRUE
  /\ pc' = [pc EXCEPT ![Starter] = "start"]
  /\ UNCHANGED <<offered, aged, uuid, ret, mutex, args, probe, resp, playerData, gameOver, stalled, server>>

\* sendTroopChoicesToCurrentPlayer: GenerateAndStoreTroopChoices for the
\* current-turn player of a running game, then the send
StoreChoices ==
  IF game.GameState = "RUNNING_SIMPLE"
    THEN \E S \in ChoiceSets : offered' = [offered EXCEPT ![game.CurrentTurnPlayerIndex] = S]
    ELSE offered' = offered

\* runGameSession -> sendInitialGameState: game start to both players,
\* then the troop choices of the player who starts
SendInitialGameState ==
  /\ pc[Starter] = "start"
  /\ IF game.CurrentTurnPlayerIndex = 0 THEN StoreChoices ELSE offered' = offered
  /\ pc' = [pc EXCEPT ![Starter] = "done"]
  /\ UNCHANGED <<game, aged, uuid, session, ret, mutex, args, probe, resp, playerData, gameOver, stalled, server>>

\* HandleDeployTroop(client, troopID) up to the ProcessTurn call: the
\* session exists, the game is running and it is the client's turn
\* (read without Game.Mutex)
HandleDeployTroop(h, troopID) ==
  /\ pc[h] = "idle"
  /\ session
  /\ game.GameState = "RUNNING_SIMPLE"
  /\ game.CurrentTurnPlayerIndex = h
  /\ pc' = [pc EXCEPT ![h] = "call"]
  /\ args' = [args EXCEPT ![h] = [NoArgs EXCEPT !.playerIndex = h,
                                                !.action = "deploy_troop",
                                                !.data = troopID]]
  /\ UNCHANGED <<game, offered, aged, uuid, session, ret, mutex, probe, resp, playerData, gameOver, stalled, server>>

\* simpleHandler.ProcessTurn(playerIndex, "deploy_troop", actionData); an
\* error goes to the client and HandleDeployTroop returns
TurnProcessed(h) ==
  /\ pc[h] = "call"
  /\ mutex = Free
  /\ \E a \in ActionOutcomes(game, offered[h], args[h], uuid + 1) :
       IF a.err # ""
         THEN /\ pc' = [pc EXCEPT ![h] = "idle"]
              /\ args' = [args EXCEPT ![h] = NoArgs]
              /\ UNCHANGED <<game, offered, uuid, resp>>
         ELSE /\ Creates(args[h], a) => uuid < MaxDeploys
              /\ uuid' = IF Creates(args[h], a) THEN uuid + 1 ELSE uuid
              /\ offered' = [offered EXCEPT ![h] = {}]
              /\ pc' = [pc EXCEPT ![h] = "events"]
              /\ \E b \in AttackOutcomes(a.g, h, aged) :
                   IF b.over
                     THEN /\ game' = b.g
                          /\ args' = [args EXCEPT ![h].ev = a.ev \o b.ev, ![h].made = b.g]
                     ELSE \E c \in CounterOutcomes(b.g, h) :
                            /\ game' = c.g
                            /\ args' = [args EXCEPT ![h].ev = a.ev \o b.ev \o c.ev,
                                                    ![h].made = c.g]
              /\ resp' = [by |-> h, ev |-> args'[h].ev, made |-> game',
                          evTo |-> {}, stateTo |-> {}]
  /\ UNCHANGED <<aged, session, ret, mutex, probe, playerData, gameOver, stalled, server>>

\* the loop sending every event to the client and to the other player,
\* then the test for game over
SendEvents(h) ==
  /\ pc[h] = "events"
  /\ resp' = IF resp.by = h /\ resp.ev = args[h].ev
               THEN [resp EXCEPT !.evTo = Players] ELSE resp
  /\ pc' = [pc EXCEPT ![h] = IF game.GameState = "FINISHED" THEN "over" ELSE "state0"]
  /\ UNCHANGED <<game, offered, aged, uuid, session, ret, mutex, args, probe, playerData, gameOver, stalled, server>>

\* the player sendUpdatedGameState is about to send to
StateReceiver(h) == IF pc[h] = "state0" THEN 0 ELSE 1

\* sendUpdatedGameState, one player at a time: the Match State as it is
\* now is converted and sent
SendUpdatedGameState(h) ==
  /\ pc[h] \in {"state0", "state1"}
  /\ resp' = IF game = resp.made
               THEN [resp EXCEPT !.stateTo = @ \cup {StateReceiver(h)}] ELSE resp
  /\ pc' = [pc EXCEPT ![h] = IF pc[h] = "state0" THEN "state1" ELSE "choices"]
  /\ UNCHANGED <<game, offered, aged, uuid, session, ret, mutex, args, probe, playerData, gameOver, stalled, server>>

\* notifyTurnChange and sendTroopChoicesToCurrentPlayer; HandleDeployTroop
\* returns
SendTroopChoices(h) ==
  /\ pc[h] = "choices"
  /\ StoreChoices
  /\ pc' = [pc EXCEPT ![h] = "idle"]
  /\ args' = [args EXCEPT ![h] = NoArgs]
  /\ UNCHANGED <<game, aged, uuid, session, ret, mutex, probe, resp, playerData, gameOver, stalled, server>>

\* handleGameOver: the players' records are settled and saved, the
\* game-over message goes to both players, then EndSession (the session is
\* removed; the game is already finished)
HandleGameOver(h) ==
  /\ pc[h] = "over"
  /\ playerData' = SettledData(game, playerData)
  /\ gameOver' = [p \in Players |->
                    Append(gameOver[p], GameOverPayload(game, playerData, playerData', p))]
  /\ session' = FALSE
  /\ game' = IF game.GameState # "FINISHED" THEN [game EXCEPT !.GameState = "FINISHED"] ELSE game
  /\ pc' = [pc EXCEPT ![h] = "idle"]
  /\ args' = [args EXCEPT ![h] = NoArgs]
  /\ UNCHANGED <<offered, aged, uuid, ret, mutex, probe, resp, stalled, server>>

NextServer ==
  \/ StartSession
  \/ SendInitialGameState
  \/ Elapse
  \/ \E h \in Threads : \E troopID \in ServerUnits : HandleDeployTroop(h, troopID)
  \/ \E h \in Threads : TurnProcessed(h)
  \/ \E h \in Threads : SendEvents(h)
  \/ \E h \in Threads : SendUpdatedGameState(h)
  \/ \E h \in Threads : SendTroopChoices(h)
  \/ \E h \in Threads : HandleGameOver(h)

SpecServer == Init /\ [][NextServer]_vars

(***************************************************************************)
(* Properties of the engine.                                               *)
(***************************************************************************)
Running(g) == g.GameState = "RUNNING_SIMPLE"
Finished(g) == g.GameState = "FINISHED"
EngineUnchanged == game' = game /\ offered' = offered /\ uuid' = uuid /\ aged' = aged
\* a step of Spec in which a ProcessTurn call returned: no other action
\* changes the game or ret and leaves the session alone, and a call that
\* changes neither is a stuttering step
CallStep == session' = session /\ (game' # game \/ ret' # ret)
ErrNotYourTurn == "not your turn"
ErrNotRunning == "game is not running in simple mode"
HP(g, t) == g.Tower[t].CurrentHP
\* the indexes of the events of kind k in an event list
EventsOf(ev, k) == {i \in DOMAIN ev : ev[i].k = k}

\* C3: in a running match a ProcessTurn call whose playerIndex is not the
\* current-turn player returns "not your turn", whatever the action and
\* its data, and leaves the game, the offered choices and the troop ids
\* as they were.
C3_TurnInvariant ==
  [][(Running(game) /\ CallStep /\ ret'.playerIndex # game.CurrentTurnPlayerIndex)
       => (ret'.err = ErrNotYourTurn /\ ret'.ev = <<>> /\ EngineUnchanged)]_vars

\* a call by the player whose turn it is not has returned in a running match
C3_Witness ==
  /\ Running(game)
  /\ ret.playerIndex \in Players
  /\ ret.playerIndex # game.CurrentTurnPlayerIndex
  /\ ret.err = ErrNotYourTurn
  /\ offered[game.CurrentTurnPlayerIndex] # {}

\* C4: once the match is Finished it stays Finished, and every ProcessTurn
\* call, by either player and with any action, is turned away by the entry
\* checks: it returns an error and no events and changes nothing.
C4_FinishedIsTerminal ==
  [][Finished(game) =>
       /\ Finished(game')
       /\ game' = game /\ offered' = offered /\ uuid' = uuid
       /\ ret' # ret => (ret'.err \in {ErrNotYourTurn, ErrNotRunning} /\ ret'.ev = <<>>)]_vars

\* the current-turn player has called ProcessTurn on a finished match and
\* has been turned away
C4_Witness ==
  /\ Finished(game)
  /\ ret.playerIndex = game.CurrentTurnPlayerIndex
  /\ ret.err = ErrNotRunning

\* C5 as the specification states it: on a match finished by the fall of
\* a king, a ProcessTurn call returns the match-over error for both
\* player indexes.
C5_MatchOverForBoth ==
  [][(Finished(game) /\ game.WinnerID # NoPlayer /\ ret' # ret)
       => ret'.err = ErrNotRunning]_vars

\* C6: every tower on the board has 0 <= CurrentHP <= MaxHP, in every state.
C6_TowerHPInRange ==
  \A t \in game.BTowers : 0 <= HP(game, t) /\ HP(game, t) <= game.Tower[t].MaxHP

\* an attack whose damage exceeded the tower's HP has been resolved, and
\* the tower stands at 0
C6_Witness ==
  \E i \in EventsOf(ret.ev, "attack") : ret.ev[i].m < 0 /\ HP(game, ret.ev[i].tower) = 0

\* guard-1 of tower t's owner
Guard1Of(t) == TowerID("guard1", OwnerOf(t))
\* the tower events[j] reports destroyed, for some j < i
DestroyedBefore(ev, i, t) ==
  \E j \in EventsOf(ev, "destroyed") : j < i /\ ev[j].tower = t
\* some king is reported destroyed at or before events[i]
KingDownBy(ev, i) ==
  \E j \in EventsOf(ev, "destroyed") : j <= i /\ SlotOf(ev[j].tower) = "king"

\* C7: while a player's guard-1 stands, every target resolved against that
\* player is guard-1: a troop is given guard-2 or the king as target, or
\* attacks one of them, only if guard-1 was at 0 HP before the call or was
\* destroyed earlier in the same call; so guard-2 and the king lose no HP
\* in a call that leaves guard-1 standing, and a troop left with guard-2
\* or the king as its target means guard-1 is down.
C7_Guard1First ==
  [][CallStep =>
         /\ \A i \in EventsOf(ret'.ev, "target") \cup EventsOf(ret'.ev, "retarget")
                     \cup EventsOf(ret'.ev, "attack") :
              SlotOf(ret'.ev[i].tower) # "guard1"
                => \/ HP(game, Guard1Of(ret'.ev[i].tower)) = 0
                   \/ DestroyedBefore(ret'.ev, i, Guard1Of(ret'.ev[i].tower))
         /\ \A t \in game.BTowers :
              HP(game', Guard1Of(t)) > 0 /\ SlotOf(t) # "guard1"
                => HP(game', t) >= HP(game, t)
         /\ \A id \in game'.BTroops :
              LET t == game'.Troop[id].TargetID
              IN  t # NoTower /\ SlotOf(t) # "guard1" => HP(game', Guard1Of(t)) = 0]_vars

\* a troop has attacked a guard-1 that is still standing while the other
\* two towers of that player are untouched
C7_Witness ==
  \E i \in EventsOf(ret.ev, "attack") :
    LET t == ret.ev[i].tower
    IN  /\ SlotOf(t) = "guard1"
        /\ ret.ev[i].n > 0
        /\ HP(game, t) > 0
        /\ \A s \in {"guard2", "king"} :
             HP(game, TowerID(s, OwnerOf(t))) = game.Tower[TowerID(s, OwnerOf(t))].MaxHP

\* C9: within one call, an attack that destroys its target while no king
\* has fallen is followed at once by the troop's re-targeting and its next
\* attack, on a tower that still stood; an attack that does not destroy
\* its target is the troop's last attack of the call.
C9_RetargetOnKill ==
  \A i \in EventsOf(ret.ev, "attack") :
    LET e == ret.ev[i]
    IN  IF e.m <= 0
          THEN /\ i + 1 \in EventsOf(ret.ev, "destroyed")
               /\ ret.ev[i + 1].tower = e.tower
               /\ ~KingDownBy(ret.ev, i + 1) =>
                    /\ i + 2 \in EventsOf(ret.ev, "retarget")
                    /\ ret.ev[i + 2].troop = e.troop
                    /\ ret.ev[i + 2].tower # e.tower
                    /\ OwnerOf(ret.ev[i + 2].tower) = OwnerOf(e.tower)
                    /\ i + 3 \in EventsOf(ret.ev, "attack")
                    /\ ret.ev[i + 3].troop = e.troop
                    /\ ret.ev[i + 3].tower = ret.ev[i + 2].tower
                    /\ ret.ev[i + 3].n + ret.ev[i + 3].m > 0
          ELSE \A j \in EventsOf(ret.ev, "attack") : j > i => ret.ev[j].troop # e.troop

\* one troop: a kill, a re-targeting and a next attack, and an attack that
\* does not kill, after which the troop attacks no more
C9_Witness ==
  \E i \in EventsOf(ret.ev, "attack") :
    /\ ret.ev[i].m <= 0
    /\ i + 3 \in EventsOf(ret.ev, "attack")
    /\ ret.ev[i + 3].troop = ret.ev[i].troop
    /\ \E j \in EventsOf(ret.ev, "attack") :
         /\ ret.ev[j].troop = ret.ev[i].troop
         /\ ret.ev[j].m > 0
         /\ \A k \in EventsOf(ret.ev, "attack") : k > j => ret.ev[k].troop # ret.ev[i].troop

\* C10: a call in which a king tower goes to 0 HP ends with the match
\* Finished, the owner of that king the loser and the other player -- the
\* caller -- the winner; the current-turn index is not advanced, no tower
\* counterattacks and no troop on the board loses HP or is removed.
C10_KingDestructionEndsGame ==
  [][\A p \in Players :
       (/\ CallStep
        /\ TowerID("king", p) \in game.BTowers
        /\ HP(game, TowerID("king", p)) > 0
        /\ HP(game', TowerID("king", p)) = 0)
         => /\ Finished(game')
            /\ game'.LoserID = p
            /\ game'.WinnerID = Other(p)
            /\ ret'.playerIndex = Other(p)
            /\ game'.CurrentTurnPlayerIndex = game.CurrentTurnPlayerIndex
            /\ EventsOf(ret'.ev, "counter") = {}
            /\ EventsOf(ret'.ev, "turn") = {}
            /\ EventsOf(ret'.ev, "gameover") = {Len(ret'.ev)}
            /\ \A id \in game.BTroops :
                 id \in game'.BTroops /\ game'.Troop[id].CurrentHP = game.Troop[id].CurrentHP]_vars

\* a king has just been destroyed by a troop of the player who is now the
\* winner, and the turn is still that player's
C10_Witness ==
  /\ Finished(game)
  /\ game.WinnerID = ret.playerIndex
  /\ game.CurrentTurnPlayerIndex = ret.playerIndex
  /\ \E i \in EventsOf(ret.ev, "destroyed") :
       ret.ev[i].tower = TowerID("king", game.LoserID)
  /\ HP(game, TowerID("king", game.LoserID)) = 0

(***************************************************************************)
(* findValidTarget as a function of the three tower HPs.                   *)
(***************************************************************************)
\* the HP values a tower of the given MaxHP is probed at
ProbeHPs(maxHP) == {0, 1, maxHP \div 2, maxHP - 1, maxHP}

\* the running game with the towers of player opp at the given HPs
WithTowerHPs(g, opp, hp) ==
  [g EXCEPT !.Tower = [t \in DOMAIN g.Tower |->
                         IF OwnerOf(t) = opp
                           THEN [g.Tower[t] EXCEPT !.CurrentHP = hp[SlotOf(t)]]
                           ELSE g.Tower[t]]]

InitTarget ==
  /\ \E l0, l1 \in Levels : \E opp \in Players :
       LET g == StartGame(NewGame(l0, l1))
           maxHP(s) == g.Tower[TowerID(s, opp)].MaxHP
       IN  \E hk \in ProbeHPs(maxHP("king")) :
             \E h1 \in ProbeHPs(maxHP("guard1")) :
               \E h2 \in ProbeHPs(maxHP("guard2")) :
                 game = WithTowerHPs(g, opp, [s \in Slots |->
                          IF s = "king" THEN hk ELSE IF s = "guard1" THEN h1 ELSE h2])
  /\ offered = [p \in Players |-> {}]
  /\ aged = {}
  /\ uuid = 0
  /\ session = TRUE
  /\ ret = NoRet
  /\ mutex = Free
  /\ pc = [c \in Threads \cup {Starter} |-> "idle"]
  /\ args = [c \in Threads |-> NoArgs]
  /\ probe = NoProbe
  /\ resp = NoResp
  /\ playerData = NewPlayerData(game)
  /\ gameOver = [p \in Players |-> <<>>]
  /\ stalled = {}
  /\ server = NewServer

\* one application of findValidTarget to a player's towers
ProbeTarget ==
  /\ probe = NoProbe
  /\ \E opp \in Players :
       probe' = [fn |-> "findValidTarget", opp |-> opp, out |-> findValidTarget(game, opp)]
  /\ UNCHANGED <<game, offered, aged, uuid, session, ret, threadVars, resp, playerData, gameOver, stalled, server>>

NextTarget == ProbeTarget

SpecTarget == InitTarget /\ [][NextTarget]_vars

\* C8: with guard-1 at 0 HP, findValidTarget returns the one of guard-2 and
\* king that stands and has the lower CurrentHP, guard-2 when both stand
\* at the same HP, the one that stands when the other does not, and no
\* target exactly when all three towers are at 0 HP.
C8_LowestAbsoluteHP ==
  (probe.fn = "findValidTarget" /\ HP(game, TowerID("guard1", probe.opp)) = 0) =>
    LET guard2 == TowerID("guard2", probe.opp)
        king == TowerID("king", probe.opp)
    IN  /\ (HP(game, guard2) > 0 /\ HP(game, king) > 0) =>
             probe.out = IF HP(game, king) < HP(game, guard2) THEN king ELSE guard2
        /\ (HP(game, guard2) > 0 /\ HP(game, king) = 0) => probe.out = guard2
        /\ (HP(game, guard2) = 0 /\ HP(game, king) > 0) => probe.out = king
        /\ probe.out = NoTower <=> (HP(game, guard2) = 0 /\ HP(game, king) = 0)

\* guard-1 is down, both other towers stand, the king at the lower HP, and
\* the king is the target returned
C8_Witness ==
  /\ probe.fn = "findValidTarget"
  /\ HP(game, TowerID("guard1", probe.opp)) = 0
  /\ HP(game, TowerID("king", probe.opp)) > 0
  /\ HP(game, TowerID("king", probe.opp)) < HP(game, TowerID("guard2", probe.opp))
  /\ probe.out = TowerID("king", probe.opp)

(***************************************************************************)
(* Properties of ProcessTurn under concurrent calls.                       *)
(***************************************************************************)
\* goroutine c is inside the body of ProcessTurn
InCall(c) == pc[c] \in {"action", "attacks", "counter", "unlock"}

\* what the call of goroutine c has returned and made of the Match State
\* is what one uninterrupted ProcessTurn call makes of the state the call
\* read on entry, for some order of the maps it ranges over
SerialOutcome(c) ==
  LET in == args[c]
      seen == in.seen
  IN  \E a \in ActionOutcomes(seen.game, seen.offered, in, seen.id) :
        IF a.err # ""
          THEN in.err = a.err /\ in.ev = <<>> /\ game = seen.game /\ uuid = seen.id - 1
          ELSE /\ in.err = ""
               /\ uuid = IF Creates(in, a) THEN seen.id ELSE seen.id - 1
               /\ \E b \in AttackOutcomes(a.g, c, aged) :
                    IF b.over
                      THEN game = b.g /\ in.ev = a.ev \o b.ev
                      ELSE \E x \in CounterOutcomes(b.g, c) :
                             game = x.g /\ in.ev = a.ev \o b.ev \o x.ev

\* C1: at most one goroutine is inside the body of ProcessTurn at a time,
\* and it holds Game.Mutex; a call that has reached its return has made of
\* the Match State what an uninterrupted call would have made of the state
\* it read on entry, so the calls take effect one after the other in the
\* order in which they took the mutex.
C1_NoOverlap ==
  /\ \A c, d \in Threads : (InCall(c) /\ InCall(d)) => c = d
  /\ \A c \in Threads : InCall(c) => mutex = c
  /\ \A c \in Threads : pc[c] = "unlock" => SerialOutcome(c)

\* one goroutine is in the middle of an accepted call, between the attacks
\* and the counterattacks, while the other waits for the mutex
C1_Witness ==
  \E c \in Threads :
    /\ pc[c] = "counter"
    /\ pc[Other(c)] = "lock"
    /\ args[c].ev # <<>>

(***************************************************************************)
(* Properties of the session manager.                                      *)
(***************************************************************************)
\* a step in which ProcessTurn accepts the action of handler h
Accepts(h) == pc[h] = "call" /\ pc'[h] = "events"
\* a step in which handler h sends a state update
SendsState(h) == pc[h] \in {"state0", "state1"} /\ pc'[h] # pc[h]

\* C2: when an action is accepted, the events of the action accepted
\* before it and a snapshot of the state that action produced have been
\* sent to both players; and the snapshot a handler sends after its action
\* is the state that action produced.
C2_ResponseBeforeNextAction ==
  [][\A h \in Threads :
       /\ Accepts(h) => (resp.evTo = Players /\ resp.stateTo = Players)
       /\ SendsState(h) => (game = args[h].made /\ resp.by = h)]_vars

\* player 1's action has been accepted and its response is not out yet,
\* and the handler of player 0 is already at its ProcessTurn call with a
\* unit of the catalog
C2_Witness ==
  /\ resp.by = 1
  /\ resp.stateTo # Players
  /\ pc[1] \in {"events", "state0", "state1"}
  /\ pc[0] = "call"
  /\ args[0].data \in Units

(***************************************************************************)
(* Properties of the counterattacks and of the cleanup.                    *)
(***************************************************************************)
\* a ProcessTurn call returned without error and without ending the match
AcceptedNonTerminal == CallStep /\ ret'.err = "" /\ EventsOf(ret'.ev, "turn") # {}
\* the attacks on tower t and the counterattacks of tower t in an event list
HitsOn(ev, t) == {i \in EventsOf(ev, "attack") : ev[i].tower = t}
CountersOf(ev, t) == {i \in EventsOf(ev, "counter") : ev[i].tower = t}
LastHitOn(ev, t) == CHOOSE i \in HitsOn(ev, t) : \A j \in HitsOn(ev, t) : j <= i

C12_EarlierTroopsAttack ==
  [][AcceptedNonTerminal =>
       /\ \A id \in game.PTroops[ret'.playerIndex] :
            \E i \in EventsOf(ret'.ev, "attack") : ret'.ev[i].troop = id
       /\ \A id \in game'.BTroops \ game.BTroops :
            \A i \in EventsOf(ret'.ev, "attack") : ret'.ev[i].troop # id]_vars

\* C13: between ProcessTurn calls, every troop in a player's ActiveTroops
\* or in BoardState.ActiveTroops has CurrentHP > 0, and the board's
\* collection holds exactly the two players' troops.
C13_NoDeadTroopRemains ==
  /\ \A id \in game.BTroops \cup game.PTroops[0] \cup game.PTroops[1] :
       id \in DOMAIN game.Troop /\ game.Troop[id].CurrentHP > 0
  /\ game.BTroops = game.PTroops[0] \cup game.PTroops[1]

\* a counterattack of the last call defeated a troop, and the troop is in
\* no collection any more while another troop still is
C13_Witness ==
  \E i \in EventsOf(ret.ev, "defeated") :
    /\ ret.ev[i].troop \notin game.BTroops \cup game.PTroops[0] \cup game.PTroops[1]
    /\ game.BTroops # {}

\* C14 as the specification states it: between ProcessTurn calls, no
\* tower, standing or destroyed, has a TargetID or a LastAttackedByTroopID
\* naming a troop that is not in the active-troop collections.
C14_NoDanglingAttacker ==
  \A t \in game.BTowers :
    /\ game.Tower[t].TargetID \in {NoTroop} \cup game.BTroops
    /\ game.Tower[t].LastAttackedByTroopID \in {NoTroop} \cup game.BTroops

\* C15: the match is created with player 0 as current-turn player; a
\* ProcessTurn call that is accepted and does not end the match was made
\* by the current-turn player, moves CurrentTurnPlayerIndex to the other
\* player and reports that once; no other step (a rejected call, a call
\* that ends the match, anything outside ProcessTurn) moves it.
C15_TurnAlternates ==
  /\ game.CurrentTurnPlayerIndex = 0
  /\ [][IF CallStep /\ ret'.err = "" /\ ~Finished(game')
          THEN /\ ret'.playerIndex = game.CurrentTurnPlayerIndex
               /\ game'.CurrentTurnPlayerIndex = Other(game.CurrentTurnPlayerIndex)
               /\ Cardinality(EventsOf(ret'.ev, "turn")) = 1
               /\ \A i \in EventsOf(ret'.ev, "turn") :
                    i = Len(ret'.ev) /\ ret'.ev[i].n = game'.CurrentTurnPlayerIndex
          ELSE game'.CurrentTurnPlayerIndex = game.CurrentTurnPlayerIndex]_vars

\* player 1's action has been accepted and the turn is back with player 0,
\* who has been offered units
C15_Witness ==
  /\ Running(game)
  /\ ret.playerIndex = 1
  /\ ret.err = ""
  /\ game.CurrentTurnPlayerIndex = 0
  /\ offered[0] # {}

(***************************************************************************)
(* processQueenHealing as a function of the three tower HPs.               *)
(***************************************************************************)
\* one application of processQueenHealing to a player's towers, in some
\* order of player.Towers; out is the tower the heal event names
ProbeHeal ==
  /\ probe = NoProbe
  /\ \E p \in Players : \E order \in Orders(game.PTowers[p]) :
       LET h == processQueenHealing(game, p, order)
       IN  /\ game' = h.g
           /\ probe' = [fn |-> "processQueenHealing", opp |-> p,
                        out |-> IF h.ev = <<>> THEN NoTower ELSE h.ev[1].tower]
  /\ UNCHANGED <<offered, aged, uuid, session, ret, threadVars, resp, playerData, gameOver, stalled, server>>

NextHeal == ProbeHeal

SpecHeal == InitTarget /\ [][NextHeal]_vars

\* tower a stands at no higher a fraction of its MaxHP than tower b
RatioAtMost(g, a, b) == HP(g, a) * g.Tower[b].MaxHP <= HP(g, b) * g.Tower[a].MaxHP
\* min(HealAmount, MaxHP - CurrentHP)
HealOf(g, t) ==
  IF g.Tower[t].MaxHP - HP(g, t) < HealAmount THEN g.Tower[t].MaxHP - HP(g, t) ELSE HealAmount

Deployed(unit) == CallStep /\ ret'.err = "" /\ Len(ret'.ev) > 0 /\ ret'.ev[1].m = unit

\* C17: an accepted deployment of the queen adds no troop to either
\* player's ActiveTroops nor to BoardState.ActiveTroops, hands out no
\* instance id, names no troop instance in its deploy event, assigns no
\* first target and returns no event about a troop that was not on the
\* board before; and it raises no HP of a tower of the other player.
C17_QueenCreatesNoTroop ==
  [][Deployed("queen") =>
       /\ game'.BTroops \subseteq game.BTroops
       /\ \A p \in Players : game'.PTroops[p] \subseteq game.PTroops[p]
       /\ uuid' = uuid
       /\ ret'.ev[1].k = "deploy" /\ ret'.ev[1].troop = NoTroop
       /\ EventsOf(ret'.ev, "target") = {}
       /\ \A i \in DOMAIN ret'.ev : ret'.ev[i].troop \in {NoTroop} \cup game.BTroops
       /\ \A t \in game.PTowers[Other(ret'.playerIndex)] : HP(game', t) <= HP(game, t)]_vars

\* the queen has been deployed and has healed a tower while troops are on
\* the board
C17_Witness ==
  /\ ret.err = ""
  /\ Len(ret.ev) > 0
  /\ ret.ev[1].m = "queen"
  /\ EventsOf(ret.ev, "heal") # {}
  /\ game.BTroops # {}

\* a call the engine has to turn away although it is the caller's turn in
\* a running match: an action kind other than deploy_troop, a troop id
\* that is not a string or not in the catalog, or a unit the caller has
\* not been offered
Invalid(in) ==
  \/ in.action # "deploy_troop"
  \/ in.data \notin Units
  \/ in.data \notin offered[in.playerIndex]

\* C18: in a running match, a call by the current-turn player with an
\* action kind other than deploy_troop, with a unit missing from the
\* catalog or with a unit not among the caller's offered choices returns
\* an error (not one of the two entry errors) and no events, and leaves
\* towers, troops, turn, phase, instance ids and the offered choices of
\* both players as they were.
C18_InvalidDeployRejected ==
  [][\A in \in Inputs :
       (/\ Running(game)
        /\ in.playerIndex = game.CurrentTurnPlayerIndex
        /\ Invalid(in)
        /\ CallProcessTurn(in))
         => /\ ret'.err \notin {"", ErrNotYourTurn, ErrNotRunning}
            /\ ret'.ev = <<>>
            /\ EngineUnchanged]_vars

\* the current-turn player of a running match has named a unit that is not
\* among the units offered, has been turned away, and still holds the
\* offered choices
C18_Witness ==
  /\ Running(game)
  /\ ret.playerIndex = game.CurrentTurnPlayerIndex
  /\ ret.err = "failed to deploy troop: invalid troop choice"
  /\ offered[ret.playerIndex] # {}
  /\ game.BTroops # {}

(***************************************************************************)
(* Properties of the steps of ProcessTurn.                                 *)
(***************************************************************************)
\* the step of goroutine c that runs processTowerCounterattacks (with the
\* cleanup, the second game-over check and nextTurn)
CounterStep(c) == pc[c] = "counter" /\ pc'[c] = "unlock"

\* C19: the counterattack step of a call leaves the CurrentHP and MaxHP of
\* every tower as they were, so no king goes to 0 HP in it and the match
\* does not end in it; only troops of the caller lose HP or are removed.
C19_CounterattacksSpareTowers ==
  [][\A c \in Threads : CounterStep(c) =>
       /\ \A t \in game.BTowers :
            /\ HP(game', t) = HP(game, t)
            /\ game'.Tower[t].MaxHP = game.Tower[t].MaxHP
       /\ game'.BTowers = game.BTowers
       /\ game'.GameState = game.GameState
       /\ \A id \in game.BTroops :
            (id \notin game'.BTroops \/ game'.Troop[id].CurrentHP < game.Troop[id].CurrentHP)
              => game.Troop[id].OwnerPlayerID = c]_vars

\* a call has gone through its counterattack step, in which a tower
\* damaged a troop, and is about to return
C19_Witness ==
  \E c \in Threads :
    /\ pc[c] = "unlock"
    /\ \E i \in EventsOf(args[c].ev, "counter") : args[c].ev[i].n > 0

(***************************************************************************)
(* ProcessTurn as a relation between the Match State and its outcome.      *)
(***************************************************************************)
\* what one ProcessTurn call can return and make of the Match State g,
\* over the orders in which it may range over the maps
CallOutcomes(g, offeredChoices, in, instanceID, old) ==
  UNION {IF a.err # ""
           THEN {[err |-> a.err, g |-> g, ev |-> <<>>]}
           ELSE UNION {IF b.over
                         THEN {[err |-> "", g |-> b.g, ev |-> a.ev \o b.ev]}
                         ELSE {[err |-> "", g |-> c.g, ev |-> a.ev \o b.ev \o c.ev] :
                                 c \in CounterOutcomes(b.g, in.playerIndex)} :
                       b \in AttackOutcomes(a.g, in.playerIndex, old)} :
         a \in ActionOutcomes(g, offeredChoices, in, instanceID)}

\* C20 as the specification states it: from every Match State every call
\* has one outcome, the same resulting state and the same event list
\* whatever the order in which the troop and tower maps are ranged over.
C20_OneOutcome ==
  \A in \in Inputs :
    Cardinality(CallOutcomes(game, offered[in.playerIndex], in, uuid + 1, aged)) = 1

(***************************************************************************)
(* Rejected calls.                                                         *)
(***************************************************************************)
\* a call the engine has to turn away in the current state: the match is not
\* running, it is not the caller's turn, or the action is invalid
MustReject(in) ==
  \/ ~Running(game)
  \/ in.playerIndex # game.CurrentTurnPlayerIndex
  \/ Invalid(in)

\* C21: in every state, a call that has to be turned away has one outcome,
\* an error with no events and the Match State as it was, so that the same
\* call made again meets the same state and returns the same error; and a
\* step in which such a call returns leaves game, offered choices,
\* instance ids and troop ages as they were and returns an error that the
\* same call returns again from the state reached.
C21_RejectionIdempotent ==
  /\ [](\A in \in Inputs : MustReject(in) =>
          \E err \in {r.err : r \in CallOutcomes(game, offered[in.playerIndex], in, uuid + 1, aged)} :
            /\ err # ""
            /\ CallOutcomes(game, offered[in.playerIndex], in, uuid + 1, aged)
                 = {[err |-> err, g |-> game, ev |-> <<>>]})
  /\ [][\A in \in Inputs : (MustReject(in) /\ CallProcessTurn(in)) =>
           /\ EngineUnchanged
           /\ ret'.err # "" /\ ret'.ev = <<>>
           /\ \A r \in CallOutcomes(game', offered'[in.playerIndex], in, uuid' + 1, aged') :
                r.err = ret'.err /\ r.g = game]_vars

\* the player whose turn it is not has been turned away in a running
\* match with troops on the board, and the other player holds its choices
C21_Witness ==
  /\ Running(game)
  /\ ret.playerIndex = Other(game.CurrentTurnPlayerIndex)
  /\ ret.err = ErrNotYourTurn
  /\ offered[game.CurrentTurnPlayerIndex] # {}
  /\ game.BTroops # {}

(***************************************************************************)
(* The session manager with clients that leave: a quit message, or the     *)
(* loss of the connection, ends the connection goroutine of the client.    *)
(***************************************************************************)
\* processMessage on a quit message returns "critical error" after
\* unregistering the user and taking it from the waiting pool; handleClient
\* returns on it, as it does when Receive fails, and its deferred function
\* drops the client and closes the connection
Quit(h) ==
  /\ pc[h] = "idle"
  /\ session
  /\ pc' = [pc EXCEPT ![h] = "gone"]
  /\ UNCHANGED <<game, offered, aged, uuid, session, ret, mutex, args, probe, resp, playerData, gameOver, stalled, server>>

NextQuit ==
  \/ NextServer
  \/ \E h \in Threads : Quit(h)

SpecQuit == Init /\ [][NextQuit]_vars

\* the step in which the server handles the quit or the lost connection
\* of player h
QuitStep(h) == pc[h] = "idle" /\ pc'[h] = "gone"

\* C22 as the specification states it: when the server handles the quit
\* or the lost connection of a player whose match is running, the match
\* becomes Finished with the other player as winner.
C22_QuitEndsMatch ==
  [][\A h \in Threads : (QuitStep(h) /\ Running(game)) =>
       (Finished(game') /\ game'.WinnerID = Other(h))]_vars

(***************************************************************************)
(* Settlement, step by step: handleGameOver saves the players' records,    *)
(* sends the game-over message to player 1 and to player 2, and ends the   *)
(* session.                                                                *)
(***************************************************************************)
\* the player the next game-over message of handler h goes to
OverReceiver(h) == IF pc[h] = "over0" THEN 0 ELSE 1

\* handleGameOver up to the payloads: EXP is computed, both records are
\* loaded, credited, levelled up and saved, and the payloads are built
SettleRecords(h) ==
  /\ pc[h] = "over"
  /\ playerData' = SettledData(game, playerData)
  /\ args' = [args EXCEPT ![h].over =
                [p \in Players |-> GameOverPayload(game, playerData, playerData', p)]]
  /\ pc' = [pc EXCEPT ![h] = "over0"]
  /\ UNCHANGED <<game, offered, aged, uuid, session, ret, mutex, probe, resp, gameOver, stalled, server>>

\* a handler that forgets the second player's message
SendGameOver_Skip(h) ==
  /\ pc[h] \in {"over0", "over1"}
  /\ gameOver' = IF OverReceiver(h) = 0
                   THEN [gameOver EXCEPT ![0] = Append(@, args[h].over[0])]
                   ELSE gameOver
  /\ pc' = [pc EXCEPT ![h] = IF pc[h] = "over0" THEN "over1" ELSE "end"]
  /\ UNCHANGED <<game, offered, aged, uuid, session, ret, mutex, args, probe, resp, playerData, stalled, server>>

\* Codec.Send(MessageTypeGameOver, ...) to Player1, then to Player2; an
\* error is logged only
SendGameOver(h) ==
  /\ pc[h] \in {"over0", "over1"}
  /\ gameOver' = [gameOver EXCEPT ![OverReceiver(h)] = Append(@, args[h].over[OverReceiver(h)])]
  /\ pc' = [pc EXCEPT ![h] = IF pc[h] = "over0" THEN "over1" ELSE "end"]
  /\ UNCHANGED <<game, offered, aged, uuid, session, ret, mutex, args, probe, resp, playerData, stalled, server>>

\* sm.EndSession(session.ID) at the end of handleGameOver, which returns
EndSessionOf(h) ==
  /\ pc[h] = "end"
  /\ session' = FALSE
  /\ game' = IF game.GameState # "FINISHED" THEN [game EXCEPT !.GameState = "FINISHED"] ELSE game
  /\ pc' = [pc EXCEPT ![h] = "idle"]
  /\ args' = [args EXCEPT ![h] = NoArgs]
  /\ UNCHANGED <<offered, aged, uuid, ret, mutex, probe, resp, playerData, gameOver, stalled, server>>

NextSettle ==
  \/ StartSession
  \/ SendInitialGameState
  \/ Elapse
  \/ \E h \in Threads : \E troopID \in ServerUnits : HandleDeployTroop(h, troopID)
  \/ \E h \in Threads : TurnProcessed(h)
  \/ \E h \in Threads : SendEvents(h)
  \/ \E h \in Threads : SendUpdatedGameState(h)
  \/ \E h \in Threads : SendTroopChoices(h)
  \/ \E h \in Threads : SettleRecords(h)
  \/ \E h \in Threads : SendGameOver(h)
  \/ \E h \in Threads : EndSessionOf(h)

SpecSettle == Init /\ [][NextSettle]_vars

\* the records have been saved with the match's earnings
Persisted == playerData = SettledData(game, NewPlayerData(game))
\* player p has been sent exactly one game-over payload, which names the
\* winner of the match, its reason and the saved record
SentOnce(p) ==
  /\ Len(gameOver[p]) = 1
  /\ gameOver[p][1].Winner = game.WinnerID
  /\ gameOver[p][1].Reason = "King Tower destroyed"
  /\ gameOver[p][1].NewTotalExp = playerData[p].EXP
  /\ gameOver[p][1].NewLevel = playerData[p].Level
\* the session of a match that was played to its end has been removed
Discarded == Finished(game) /\ ~session

\* C23: a match that ended is settled once.  No player is ever sent a
\* second game-over payload; a payload is sent only after the records were
\* saved, and names the winner, the reason and the saved record; the
\* session is removed only after both players were sent their payload; the
\* handler that ended the match returns only after all of that; and once
\* the session is removed no deploy request is accepted and nothing changes
\* any more.
C23_SettledOnce ==
  /\ [](\A p \in Players :
          /\ Len(gameOver[p]) <= 1
          /\ gameOver[p] # <<>> => (Persisted /\ SentOnce(p) /\ session)
                                   \/ (Persisted /\ SentOnce(p) /\ Discarded)
          /\ Discarded => SentOnce(p))
  /\ [][/\ \A h \in Threads :
             (pc[h] # "idle" /\ pc'[h] = "idle" /\ Finished(game')) =>
               (~session' /\ \A p \in Players : Len(gameOver'[p]) = 1)
        /\ Discarded =>
             /\ \A h \in Threads : pc'[h] = "idle"
             /\ UNCHANGED <<game, session, playerData, gameOver>>]_vars

\* the match was settled and discarded, and the winner levelled up on it
C23_Witness ==
  /\ Discarded
  /\ \A p \in Players : SentOnce(p)
  /\ \E p \in Players : gameOver[p][1].LeveledUp /\ gameOver[p][1].ExpEarned > 0

\* the experience a record stands for: what its levels cost plus what is left
RECURSIVE Lifetime(_)
Lifetime(data) ==
  IF data.Level <= 1 THEN data.EXP
  ELSE CalculateRequiredExp(data.Level - 1)
         + Lifetime([Level |-> data.Level - 1, EXP |-> data.EXP])
\* the bonus the specification gives: 30 to the winner, 10 to each on a draw
BonusOf(g, p) ==
  IF g.WinnerID = p THEN 30 ELSE IF g.WinnerID = NoPlayer THEN 10 ELSE 0
\* the step of handleGameOver that saves the records
SettleStep == \E h \in Threads : pc[h] = "over" /\ pc'[h] = "over0"

\* C24 as the specification states it: settlement credits each player with
\* the expYield of the opponent towers at 0 HP plus the win bonus of 30 for
\* the winner (10 each on a draw), and no record changes before settlement.
C24_YieldPlusBonus ==
  [][/\ SettleStep =>
          \A p \in Players :
            Lifetime(playerData'[p]) - Lifetime(playerData[p])
              = calculateDestroyedTowerExp(game, Other(p)) + BonusOf(game, p)
     /\ ~SettleStep => playerData' = playerData]_vars

(***************************************************************************)
(* The level-up loop of settlement as a function of a record and of the    *)
(* experience earned.                                                      *)
(***************************************************************************)
\* EXP a saved record can hold (below every requirement) and EXP a match
\* can earn: nothing, less than a level, exactly one, several
StoredExps == {0, 40, 99}
EarnedExps == {0, 60, 100, 250, 400, 700}

InitLevel ==
  /\ game = NewGame(1, 1)
  /\ offered = [p \in Players |-> {}]
  /\ aged = {}
  /\ uuid = 0
  /\ session = FALSE
  /\ ret = NoRet
  /\ mutex = Free
  /\ pc = [c \in Threads \cup {Starter} |-> "idle"]
  /\ args = [c \in Threads |-> NoArgs]
  /\ probe = NoProbe
  /\ resp = NoResp
  /\ playerData \in [Players -> [EXP : StoredExps, Level : 1..MaxStartLevel]]
  /\ gameOver = [p \in Players |-> <<>>]
  /\ stalled = {}
  /\ server = NewServer

\* the record of player p is credited with the earned EXP, levelled up and
\* saved; out is the record the loop started from
ProbeLevelUp ==
  /\ probe = NoProbe
  /\ \E p \in Players : \E earned \in EarnedExps :
       LET start == [Level |-> playerData[p].Level, EXP |-> playerData[p].EXP + earned]
       IN  /\ playerData' = [playerData EXCEPT ![p] = LevelUp(start)]
           /\ probe' = [fn |-> "LevelUp", opp |-> p, out |-> start]
  /\ UNCHANGED <<game, offered, aged, uuid, session, ret, threadVars, resp, gameOver, stalled, server>>

NextLevel == ProbeLevelUp

SpecLevel == InitLevel /\ [][NextLevel]_vars

\* the requirements of the levels from..to-1
RECURSIVE Requirements(_, _)
Requirements(from, to) ==
  IF from >= to THEN 0 ELSE CalculateRequiredExp(from) + Requirements(from + 1, to)
LevelledUp == probe.fn = "LevelUp"
Start == probe.out
End == playerData[probe.opp]

\* C25: the level-up loop carries the excess over.  From (level, stored +
\* earned EXP) it ends on a level not lower, with EXP below that level's
\* requirement; the requirements of the levels passed plus the EXP left
\* equal the starting total; a total that covers the requirement raises
\* the level, one that covers two requirements raises it by two or more.
C25_LevelUpCarriesOver ==
  LevelledUp =>
    /\ End.Level >= Start.Level
    /\ End.EXP >= 0
    /\ End.EXP < CalculateRequiredExp(End.Level)
    /\ Requirements(Start.Level, End.Level) + End.EXP = Start.EXP
    /\ Start.EXP >= CalculateRequiredExp(Start.Level) => End.Level >= Start.Level + 1
    /\ Start.EXP >= Requirements(Start.Level, Start.Level + 2) => End.Level >= Start.Level + 2
    /\ (Start.Level = 1 /\ Start.EXP >= 100) => (End.Level >= 2 /\ Lifetime(End) = Start.EXP)

\* a level-1 record gained several levels at once and kept a remainder
C25_Witness ==
  /\ LevelledUp
  /\ Start.Level = 1
  /\ End.Level >= 3
  /\ End.EXP > 0

(***************************************************************************)
(* Instantiation of towers and troops for players of every level.          *)
(***************************************************************************)
InitStats ==
  /\ \E l0, l1 \in 1..MaxStartLevel : game = NewGame(l0, l1)
  /\ offered = [p \in Players |-> {}]
  /\ aged = {}
  /\ uuid = 0
  /\ session = FALSE
  /\ ret = NoRet
  /\ mutex = Free
  /\ pc = [c \in Threads \cup {Starter} |-> "idle"]
  /\ args = [c \in Threads |-> NoArgs]
  /\ probe = NoProbe
  /\ resp = NoResp
  /\ playerData = NewPlayerData(game)
  /\ gameOver = [p \in Players |-> <<>>]
  /\ stalled = {}
  /\ server = NewServer

\* one application of deployTroop for a unit the player was offered
ProbeDeployTroop ==
  /\ Running(game)
  /\ uuid < MaxDeploys
  /\ \E p \in Players : \E troopID \in Units \ {"queen"} :
       game' = deployTroop(game, {troopID}, p, Other(p), troopID, uuid + 1).g
  /\ uuid' = uuid + 1
  /\ UNCHANGED <<offered, aged, session, ret, threadVars, probe, resp, playerData, gameOver, stalled, server>>

NextStats ==
  \/ CreateSession
  \/ ProbeDeployTroop

SpecStats == InitStats /\ [][NextStats]_vars

\* floor(base x 1.1^(level-1)), which int(float64(base) * CalculateStatBoost(level))
\* truncates to
Compound(base, level) == (base * Pow(11, level - 1)) \div Pow(10, level - 1)
CompoundStats(unit, spec, level) ==
  /\ unit.MaxHP = Compound(spec.BaseHP, level)
  /\ unit.CurrentHP = Compound(spec.BaseHP, level)
  /\ unit.ATK = Compound(spec.BaseATK, level)
  /\ unit.DEF_ = Compound(spec.BaseDEF, level)

\* C26 as the specification states it: every tower and troop instantiated
\* for a player of level L has HP, ATK and DEF equal to
\* floor(base x 1.1^(L-1)), the multiplier of CalculateStatBoost(L).
C26_CompoundScaling ==
  /\ \A t \in game.BTowers :
       CompoundStats(game.Tower[t], TowerSpecs[game.Tower[t].SpecID],
                     game.Level[game.Tower[t].OwnerPlayerID])
  /\ \A i \in game.BTroops :
       CompoundStats(game.Troop[i], TroopSpecs[game.Troop[i].SpecID],
                     game.Level[game.Troop[i].OwnerPlayerID])

(***************************************************************************)
(* The two views of the units: each player's maps and the board's.         *)
(***************************************************************************)
\* C27: the per-player collections and the board collection never
\* diverge.  The board's towers are exactly the two players' towers and
\* the board's troops exactly the two players' troops; every id stands for
\* one object, so both views read the same HP; no unit is listed under two
\* players, and each is listed under its owner.
C27_ViewsAgree ==
  /\ game.BTowers = game.PTowers[0] \cup game.PTowers[1]
  /\ game.BTroops = game.PTroops[0] \cup game.PTroops[1]
  /\ game.PTowers[0] \cap game.PTowers[1] = {}
  /\ game.PTroops[0] \cap game.PTroops[1] = {}
  /\ DOMAIN game.Tower = game.BTowers
  /\ DOMAIN game.Troop = game.BTroops
  /\ \A p \in Players :
       /\ \A t \in game.PTowers[p] : game.Tower[t].OwnerPlayerID = p
       /\ \A i \in game.PTroops[p] : game.Troop[i].OwnerPlayerID = p

\* towers were created, two troops were deployed, and one of them was
\* removed after its defeat while the other is still on the board
C27_Witness ==
  /\ Running(game)
  /\ uuid = 2
  /\ Cardinality(game.BTroops) = 1
  /\ \E i \in game.BTroops : game.Troop[i].CurrentHP > 0

(***************************************************************************)
(* The session manager with a client that stops reading.  Codec.Send is    *)
(* conn.Write with no deadline: a write to a connection that no longer     *)
(* takes data does not return, and the goroutine making it stays where it  *)
(* is.                                                                     *)
(***************************************************************************)
\* Codec.Send to each of these players returns
CanSend(to) == to \cap stalled = {}

\* between two of its requests the client of player p stops reading and
\* its connection fills up
Stall(p) ==
  /\ session
  /\ stalled = {}
  /\ pc[p] = "idle"
  /\ stalled' = {p}
  /\ UNCHANGED <<game, offered, aged, uuid, session, ret, mutex, pc, args, probe, resp,
                 playerData, gameOver, server>>

\* the steps of the goroutines with the writes they make
WriteInitialGameState == CanSend(Players) /\ SendInitialGameState
Request(h, troopID) == h \notin stalled /\ HandleDeployTroop(h, troopID)
WriteEvents(h) == CanSend(Players) /\ SendEvents(h)
WriteUpdatedGameState(h) == CanSend({StateReceiver(h)}) /\ SendUpdatedGameState(h)
WriteTroopChoices(h) == CanSend(Players) /\ SendTroopChoices(h)
WriteGameOver(h) == CanSend({OverReceiver(h)}) /\ SendGameOver(h)

\* what the connection goroutine of player h does once ProcessTurn has
\* accepted the action: the response, and settlement if the match is over
Respond(h) ==
  \/ WriteEvents(h)
  \/ WriteUpdatedGameState(h)
  \/ WriteTroopChoices(h)
  \/ SettleRecords(h)
  \/ WriteGameOver(h)
  \/ EndSessionOf(h)

NextStall ==
  \/ StartSession
  \/ WriteInitialGameState
  \/ Elapse
  \/ \E p \in Players : Stall(p)
  \/ \E h \in Threads : \E troopID \in ServerUnits : Request(h, troopID)
  \/ \E h \in Threads : TurnProcessed(h)
  \/ \E h \in Threads : Respond(h)

\* the Go scheduler runs every goroutine that can take a step
SpecStall ==
  /\ Init
  /\ [][NextStall]_vars
  /\ \A h \in Threads : WF_vars(Respond(h))

\* C28 as the specification states it: a stalled client cannot stall the
\* other player.  Whenever a player's action has been accepted, the
\* handling of it completes: events, state and turn are sent and the
\* handler returns, even if the opponent's connection has stopped taking
\* data.
C28_AcceptedActionAnswered ==
  \A h \in Threads : (pc[h] = "events") ~> (pc[h] = "idle")

(***************************************************************************)
(* Match creation from whatever catalog LoadGameConfig returns.            *)
(***************************************************************************)
\* the tower catalogs a configuration can hold: any of the two tower types
\* may be missing
TowerCatalogs == SUBSET DOMAIN TowerSpecs

\* createPlayerTowers(player, towerSpecs): both specs are looked up before
\* any tower is made
createPlayerTowersWith(g, p, towerSpecs) ==
  IF "king_tower" \notin towerSpecs THEN Result("king tower spec not found", g, <<>>)
  ELSE IF "guard_tower" \notin towerSpecs THEN Result("guard tower spec not found", g, <<>>)
  ELSE Result("", createPlayerTowers(g, p), <<>>)

\* StartGame: GameState is set to RunningSimple, then initializeTowers
\* makes the towers of player 1 and of player 2 and stops at the first error
StartGameWith(g, towerSpecs) ==
  LET running == [g EXCEPT !.GameState = "RUNNING_SIMPLE"]
      first == createPlayerTowersWith(running, 0, towerSpecs)
      second == createPlayerTowersWith(first.g, 1, towerSpecs)
  IN  IF first.err # "" THEN Result("failed to initialize towers", first.g, <<>>)
      ELSE IF second.err # "" THEN Result("failed to initialize towers", second.g, <<>>)
      ELSE second

\* CreateSession: the configuration is loaded, NewGame's object is started;
\* on an error CreateSession returns it and stores no session; probe keeps
\* the tower catalog that was loaded
CreateSessionWith(towerSpecs) ==
  /\ ~session
  /\ game.GameState = "WAITING"
  /\ probe = NoProbe
  /\ LET started == StartGameWith(game, towerSpecs)
     IN  /\ game' = started.g
         /\ session' = (started.err = "")
         /\ ret' = [playerIndex |-> NoPlayer,
                    err |-> IF started.err = "" THEN ""
                            ELSE "failed to start simple game mode",
                    ev |-> <<>>]
  /\ probe' = [fn |-> "CreateSession", opp |-> NoPlayer, out |-> towerSpecs]
  /\ UNCHANGED <<offered, aged, uuid, threadVars, resp, playerData, gameOver, stalled, server>>

\* the engine is called for matches that have a session
SessionChoices == session /\ GenerateChoices
SessionCall(in) == session /\ CallProcessTurn(in)

NextCreate ==
  \/ \E towerSpecs \in TowerCatalogs : CreateSessionWith(towerSpecs)
  \/ SessionChoices
  \/ Elapse
  \/ \E in \in Inputs : SessionCall(in)
  \/ EndSession

SpecCreate == Init /\ [][NextCreate]_vars

\* the step in which CreateSession ran
CreateStep == probe = NoProbe /\ probe'.fn = "CreateSession"
LacksTowerType == ~({"king_tower", "guard_tower"} \subseteq probe'.out)

\* C29 as the specification states it: match creation fails exactly when
\* the catalog lacks the king-tower or the guard-tower type, and a failure
\* leaves no tower in either player's collection or on the board, does not
\* leave the match in the Running phase, and registers no session.
C29_CreationFailsCleanly ==
  [][CreateStep =>
       /\ LacksTowerType <=> ret'.err # ""
       /\ ret'.err # "" =>
            /\ game'.BTowers = {}
            /\ \A p \in Players : game'.PTowers[p] = {}
            /\ ~Running(game')
            /\ ~session']_vars

(***************************************************************************)
(* Towers from the start of the match to its end.                          *)
(***************************************************************************)
\* the match has been started
Started(g) == g.GameState # "WAITING"
TowersOf(p) == {TowerID(slot, p) : slot \in Slots}

\* C30: towers are never deleted and never revived.  From the start of
\* the match each player owns its king, guard-1 and guard-2 tower, in its
\* own collection and on the board, with HP between 0 and MaxHP; no step
\* removes or re-creates a tower, and a tower at HP 0 is at HP 0 after
\* every step.
C30_TowersPersist ==
  /\ [](Started(game) =>
          /\ \A p \in Players : game.PTowers[p] = TowersOf(p)
          /\ game.BTowers = TowersOf(0) \cup TowersOf(1)
          /\ \A t \in game.BTowers :
               /\ game.Tower[t].SpecID = SpecIDOf(SlotOf(t))
               /\ game.Tower[t].OwnerPlayerID = OwnerOf(t)
               /\ HP(game, t) >= 0
               /\ HP(game, t) <= game.Tower[t].MaxHP)
  /\ [][Started(game) =>
          \A t \in game.BTowers :
            /\ t \in game'.BTowers
            /\ game'.Tower[t].MaxHP = game.Tower[t].MaxHP
            /\ HP(game, t) = 0 => HP(game', t) = 0]_vars

\* a player with a destroyed tower deployed the queen, and the heal went
\* to another tower of that player
C30_Witness ==
  /\ Running(game)
  /\ \E i \in EventsOf(ret.ev, "heal") :
       /\ ret.ev[i].n > 0
       /\ \E t \in game.PTowers[OwnerOf(ret.ev[i].tower)] : HP(game, t) = 0

(***************************************************************************)
(* Damage and the HP it takes.                                             *)
(***************************************************************************)
\* the damage of the events of ev with index in S, added up
RECURSIVE SumDamage(_, _)
SumDamage(ev, S) ==
  IF S = {} THEN 0
  ELSE LET i == CHOOSE x \in S : TRUE IN ev[i].n + SumDamage(ev, S \ {i})
\* the counterattacks on troop id in an event list
CountersOn(ev, id) == {i \in EventsOf(ev, "counter") : ev[i].troop = id}
DiffOrZero(a, d) == IF a > d THEN a - d ELSE 0
\* a ProcessTurn call was accepted
AcceptedCall == CallStep /\ ret'.err = ""
\* every attack and counterattack of the call did max(0, ATK - DEF) damage
DamageByFormula ==
  /\ \A i \in EventsOf(ret'.ev, "attack") :
       /\ ret'.ev[i].n >= 0
       /\ ret'.ev[i].n = DiffOrZero(game.Troop[ret'.ev[i].troop].ATK,
                                    game.Tower[ret'.ev[i].tower].DEF_)
  /\ \A i \in EventsOf(ret'.ev, "counter") :
       /\ ret'.ev[i].n >= 0
       /\ ret'.ev[i].n = DiffOrZero(game.Tower[ret'.ev[i].tower].ATK,
                                    game.Troop[ret'.ev[i].troop].DEF_)

\* C31 as the specification states it: damage is max(0, ATK - DEF), never
\* negative, and every HP decrease of a tower or troop in an action equals
\* the damage done to it.
C31_DecreaseIsDamage ==
  [][AcceptedCall =>
       /\ DamageByFormula
       /\ \A t \in game.PTowers[Other(ret'.playerIndex)] :
            HP(game, t) - HP(game', t) = SumDamage(ret'.ev, HitsOn(ret'.ev, t))
       /\ \A id \in game.BTroops \cap game'.BTroops :
            game.Troop[id].CurrentHP - game'.Troop[id].CurrentHP
              = SumDamage(ret'.ev, CountersOn(ret'.ev, id))]_vars

\* C31, amended: damage is max(0, ATK - DEF), never negative; the HP of a
\* tower after an action is its HP before less the damage done to it,
\* floored at 0; a troop that stays on the board lost exactly the damage
\* done to it, and a troop that left it was done at least its HP in damage.
C31_DecreaseIsDamageFloored ==
  [][AcceptedCall =>
       /\ DamageByFormula
       /\ \A t \in game.PTowers[Other(ret'.playerIndex)] :
            HP(game', t) = DiffOrZero(HP(game, t), SumDamage(ret'.ev, HitsOn(ret'.ev, t)))
       /\ \A id \in game.BTroops :
            IF id \in game'.BTroops
              THEN /\ game'.Troop[id].CurrentHP > 0
                   /\ game.Troop[id].CurrentHP - game'.Troop[id].CurrentHP
                        = SumDamage(ret'.ev, CountersOn(ret'.ev, id))
              ELSE game.Troop[id].CurrentHP <= SumDamage(ret'.ev, CountersOn(ret'.ev, id))]_vars

\* a call in which a tower took more damage than it had HP left and a
\* tower struck back
C31_Witness ==
  /\ ret.err = ""
  /\ \E i \in EventsOf(ret.ev, "attack") : ret.ev[i].n > 0 /\ ret.ev[i].m < 0
  /\ EventsOf(ret.ev, "counter") # {}

(***************************************************************************)
(* Matches on other catalogs: the tower stats are configuration, and a     *)
(* king tower need not be the strongest tower.                             *)
(***************************************************************************)
\* a catalog whose king tower has fewer HP than its guard towers
LowKingSpecs ==
  [king_tower  |-> [BaseHP |-> 200, BaseATK |-> 500, BaseDEF |-> 300, ExpYield |-> 200],
   guard_tower |-> [BaseHP |-> 300, BaseATK |-> 300, BaseDEF |-> 100, ExpYield |-> 100]]
\* a catalog whose king tower has the HP of its guard towers
EvenKingSpecs ==
  [king_tower  |-> [BaseHP |-> 300, BaseATK |-> 500, BaseDEF |-> 300, ExpYield |-> 200],
   guard_tower |-> [BaseHP |-> 300, BaseATK |-> 300, BaseDEF |-> 100, ExpYield |-> 100]]
TowerCatalogStats == {TowerSpecs, LowKingSpecs, EvenKingSpecs}

\* a tower of createPlayerTowers made from the catalog towerSpecs
NewTowerOf(towerSpecs, slot, p, level) ==
  LET spec == towerSpecs[SpecIDOf(slot)]
  IN  [SpecID |-> SpecIDOf(slot),
       CurrentHP |-> LevelScaled(spec.BaseHP, level),
       MaxHP |-> LevelScaled(spec.BaseHP, level),
       ATK |-> LevelScaled(spec.BaseATK, level),
       DEF_ |-> LevelScaled(spec.BaseDEF, level),
       OwnerPlayerID |-> p,
       TargetID |-> NoTroop,
       LastAttackedByTroopID |-> NoTroop]

\* StartGame(player1, player2, towerSpecs, troopSpecs) on a complete catalog
StartGameOf(g, towerSpecs) ==
  LET ids == {TowerID(slot, p) : slot \in Slots, p \in Players}
  IN  [g EXCEPT !.GameState = "RUNNING_SIMPLE",
                !.PTowers = [p \in Players |-> {TowerID(slot, p) : slot \in Slots}],
                !.BTowers = ids,
                !.Tower = [t \in ids |->
                             NewTowerOf(towerSpecs, SlotOf(t), OwnerOf(t), g.Level[OwnerOf(t)])]]

\* the state CreateSession leaves: a started match with its session
InitCatalog ==
  /\ \E l0, l1 \in Levels : \E towerSpecs \in TowerCatalogStats :
       game = StartGameOf(NewGame(l0, l1), towerSpecs)
  /\ offered = [p \in Players |-> {}]
  /\ aged = {}
  /\ uuid = 0
  /\ session = TRUE
  /\ ret = NoRet
  /\ mutex = Free
  /\ pc = [c \in Threads \cup {Starter} |-> "idle"]
  /\ args = [c \in Threads |-> NoArgs]
  /\ probe = NoProbe
  /\ resp = NoResp
  /\ playerData = NewPlayerData(game)
  /\ gameOver = [p \in Players |-> <<>>]
  /\ stalled = {}
  /\ server = NewServer

NextCatalog ==
  \/ GenerateChoices
  \/ Elapse
  \/ \E in \in Inputs : CallProcessTurn(in)
  \/ EndSession

SpecCatalog == InitCatalog /\ [][NextCatalog]_vars

\* the events in which a king tower was destroyed
KingFalls(ev) == {i \in EventsOf(ev, "destroyed") : SlotOf(ev[i].tower) = "king"}

\* C32 as the specification states it: once the opposing king tower has
\* reached 0 HP in the attack phase of a call, no troop attacks or
\* retargets and no tower is destroyed later in that call, and every tower
\* ends the call with the HP it had when the king fell.
C32_NothingAfterKingFalls ==
  [][AcceptedCall =>
       \A i \in KingFalls(ret'.ev) :
         /\ \A j \in DOMAIN ret'.ev :
              j > i => ret'.ev[j].k \notin {"attack", "retarget", "destroyed"}
         /\ \A t \in game.BTowers \ game.PTowers[ret'.playerIndex] :
              HP(game', t) = DiffOrZero(HP(game, t),
                               SumDamage(ret'.ev, {h \in HitsOn(ret'.ev, t) : h < i}))]_vars

(***************************************************************************)
(* The attack loop of one troop.                                           *)
(***************************************************************************)
\* the attacks of troop id in an event list
AttacksBy(ev, id) == {i \in EventsOf(ev, "attack") : ev[i].troop = id}
Attackers(ev) == {ev[i].troop : i \in EventsOf(ev, "attack")}

\* C33: the attack phase of every call ends, and in its events each troop
\* has at most three attacks, every attack of a troop but its last is
\* followed by the destruction of the tower it hit, and every attack hits
\* a tower that had HP > 0 just before it (the HP the state held, for the
\* first attack on a tower in the call).
C33_AttackLoopBounded ==
  [][CallStep =>
       \A id \in Attackers(ret'.ev) :
         /\ Cardinality(AttacksBy(ret'.ev, id)) <= 3
         /\ \A i \in AttacksBy(ret'.ev, id) :
              /\ ret'.ev[i].m + ret'.ev[i].n > 0
              /\ (\A j \in HitsOn(ret'.ev, ret'.ev[i].tower) : j >= i)
                   => ret'.ev[i].m + ret'.ev[i].n = HP(game, ret'.ev[i].tower)
              /\ (\E j \in AttacksBy(ret'.ev, id) : j > i)
                   => /\ ret'.ev[i].m <= 0
                      /\ ret'.ev[i + 1].k = "destroyed"
                      /\ ret'.ev[i + 1].tower = ret'.ev[i].tower
                      /\ HP(game', ret'.ev[i].tower) = 0]_vars
\* a troop attacked three times in one call
C33_Witness ==
  /\ ret.err = ""
  /\ \E id \in Attackers(ret.ev) : Cardinality(AttacksBy(ret.ev, id)) = 3
\* a troop attacked for 0 damage and stopped
C33_ZeroDamage ==
  /\ ret.err = ""
  /\ \E i \in EventsOf(ret.ev, "attack") : ret.ev[i].n = 0

(***************************************************************************)
(* The end of a match.                                                     *)
(***************************************************************************)
\* the king towers standing at 0 HP
FallenKings(g) ==
  {p \in Players : TowerID("king", p) \in g.BTowers /\ HP(g, TowerID("king", p)) = 0}

\* C34: at most one king tower is at 0 HP in any state, and a ProcessTurn
\* call that makes the match Finished names its caller as WinnerID and the
\* other player as LoserID, with the loser's king tower at 0 HP and the
\* winner's king tower above 0.
C34_OneKingFallsCallerWins ==
  /\ [](Cardinality(FallenKings(game)) <= 1)
  /\ [][(CallStep /\ ~Finished(game) /\ Finished(game'))
          => /\ game'.WinnerID = ret'.playerIndex
             /\ game'.LoserID = Other(ret'.playerIndex)
             /\ HP(game', TowerID("king", game'.LoserID)) = 0
             /\ HP(game', TowerID("king", game'.WinnerID)) > 0]_vars
\* a call has just ended the match
C34_Witness ==
  /\ ret.err = ""
  /\ Finished(game)
  /\ EventsOf(ret.ev, "gameover") # {}
  /\ FallenKings(game) = {game.LoserID}

(***************************************************************************)
(* What a call may change on either side of the board.                     *)
(***************************************************************************)
\* C35: an accepted call of player p keeps the opponent's troops as they
\* were (the same troops, each with the HP and the target it had), lowers
\* the HP of none of p's towers, raises the HP of no tower of the opponent
\* and raises the HP of no troop.
C35_OneSidedEffects ==
  [][AcceptedCall =>
       LET p == ret'.playerIndex
           opp == Other(ret'.playerIndex)
       IN  /\ game'.PTroops[opp] = game.PTroops[opp]
           /\ \A id \in game.PTroops[opp] :
                /\ id \in game'.BTroops
                /\ game'.Troop[id] = game.Troop[id]
           /\ \A t \in game.PTowers[p] : HP(game', t) >= HP(game, t)
           /\ \A t \in game.PTowers[opp] : HP(game', t) <= HP(game, t)
           /\ \A id \in game.BTroops \cap game'.BTroops :
                game'.Troop[id].CurrentHP <= game.Troop[id].CurrentHP]_vars
\* a call in which the opponent had a troop out, a tower of the caller was
\* healed, a tower of the opponent was hit and a troop of the caller was hit
C35_Witness ==
  /\ ret.err = ""
  /\ game.PTroops[Other(ret.playerIndex)] # {}
  /\ \E i \in EventsOf(ret.ev, "attack") : ret.ev[i].n > 0
  /\ \E i \in EventsOf(ret.ev, "counter") : ret.ev[i].n > 0
\* a call in which a tower of the caller was healed
C35_Healed ==
  /\ ret.err = ""
  /\ \E i \in EventsOf(ret.ev, "heal") : ret.ev[i].n > 0

(***************************************************************************)
(* The lobby: acceptConnections, handleClient, processMessage, the         *)
(* AuthManager and the MatchmakingManager.  s is the server record.        *)
(***************************************************************************)
gameVars == <<game, offered, aged, uuid, session, ret, mutex, pc, args, probe, resp,
             playerData, gameOver, stalled>>

\* bcrypt.GenerateFromPassword and bcrypt.CompareHashAndPassword
Hash(password) == <<"bcrypt", password>>
CompareHashAndPassword(hashedPassword, password) == hashedPassword = Hash(password)

\* AuthenticateUser(username, password): the error, and the server with the
\* account it may have created
AuthenticateUser(s, username, password) ==
  IF username = "" \/ password = ""
    THEN [err |-> "username and password cannot be empty", s |-> s]
  ELSE IF s.accounts[username] = ""
    THEN [err |-> "", s |-> [s EXCEPT !.accounts[username] = Hash(password)]]
  ELSE IF ~CompareHashAndPassword(s.accounts[username], password)
    THEN [err |-> "invalid username or password", s |-> s]
  ELSE [err |-> "", s |-> s]

\* a registry in which the latest login takes the name over
RegisterActiveUser_Takeover(s, username, clientID) ==
  [err |-> "", s |-> [s EXCEPT !.activeUsers[username] = clientID]]

\* RegisterActiveUser(username, clientID)
RegisterActiveUser(s, username, clientID) ==
  IF s.activeUsers[username] # NoClient
    THEN IF s.activeUsers[username] # clientID
           THEN [err |-> "user already logged in from another client", s |-> s]
           ELSE [err |-> "", s |-> s]
    ELSE [err |-> "", s |-> [s EXCEPT !.activeUsers[username] = clientID]]

\* UnregisterActiveUser(username)
UnregisterActiveUser(s, username) == [s EXCEPT !.activeUsers[username] = NoClient]

InPool(pool, c) == \E i \in DOMAIN pool : pool[i] = c

\* a queue that takes every join request
AddToWaitingPool_NoCheck(s, c) == [s EXCEPT !.waitingPool = Append(@, c)]

\* AddToWaitingPool(client)
AddToWaitingPool(s, c) ==
  IF InPool(s.waitingPool, c) THEN s
  ELSE [s EXCEPT !.waitingPool = Append(@, c)]

\* RemoveFromWaitingPool(clientID): the first entry with that id leaves
RemoveFromWaitingPool(s, c) ==
  IF ~InPool(s.waitingPool, c) THEN s
  ELSE LET i == CHOOSE k \in DOMAIN s.waitingPool :
                  /\ s.waitingPool[k] = c
                  /\ \A j \in 1..(k - 1) : s.waitingPool[j] # c
       IN  [s EXCEPT !.waitingPool = SubSeq(@, 1, i - 1) \o SubSeq(@, i + 1, Len(@))]

\* the deferred function of handleClient: the client leaves s.clients and
\* its connection is closed
Disconnected(s, c) == [s EXCEPT !.clients = @ \ {c}]

\* acceptConnections: one more connection, with the next id
Connect ==
  /\ server.accepted < MaxClients
  /\ server' = [server EXCEPT !.accepted = @ + 1,
                              !.clients = @ \cup {server.accepted + 1}]
  /\ UNCHANGED gameVars

\* processMessage, case MessageTypeLogin
Login(c, username, password) ==
  /\ c \in server.clients
  /\ LET auth == AuthenticateUser(server, username, password)
         named == [auth.s EXCEPT !.Username[c] = username]
     IN  server' = IF auth.err # "" THEN auth.s
                   ELSE RegisterActiveUser(named, username, c).s
  /\ UNCHANGED gameVars

\* processMessage, case MessageTypeJoinQueue
JoinQueue(c) ==
  /\ c \in server.clients
  /\ server' = IF server.Username[c] = "" THEN server
               ELSE AddToWaitingPool(server, c)
  /\ UNCHANGED gameVars

\* processMessage, case MessageTypeQuit, and the return of handleClient
\* that its "critical error" causes
QuitMessage(c) ==
  /\ c \in server.clients
  /\ server' = Disconnected(
                 IF server.Username[c] # ""
                   THEN RemoveFromWaitingPool(
                          UnregisterActiveUser(server, server.Username[c]), c)
                   ELSE server, c)
  /\ UNCHANGED gameVars

\* Codec.Receive returns an error (the peer closed the socket, the read
\* failed): handleClient returns
ConnectionLost(c) ==
  /\ c \in server.clients
  /\ server' = Disconnected(server, c)
  /\ UNCHANGED gameVars

\* tryMatchmaking with startGame, on a tick of matchmakingLoop
tryMatchmaking ==
  /\ server.gameCounter < MaxGames
  /\ server' =
       IF Len(server.waitingPool) >= 2
         THEN LET player1 == server.waitingPool[1]
                  player2 == server.waitingPool[2]
                  gameID == server.gameCounter + 1
              IN  [server EXCEPT
                     !.waitingPool = SubSeq(@, 3, Len(@)),
                     !.gameCounter = gameID,
                     !.GameID = [c \in ClientIDs |->
                                   IF c \in {player1, player2} THEN gameID ELSE @[c]],
                     !.started = Append(@, <<player1, player2>>)]
         ELSE server
  /\ UNCHANGED gameVars

NextLobby ==
  \/ Connect
  \/ \E c \in ClientIDs : \E username \in Usernames \cup {""} :
       \E password \in Passwords \cup {""} : Login(c, username, password)
  \/ \E c \in ClientIDs : JoinQueue(c)
  \/ \E c \in ClientIDs : QuitMessage(c)
  \/ \E c \in ClientIDs : ConnectionLost(c)
  \/ tryMatchmaking

SpecLobby == Init /\ [][NextLobby]_vars

(***************************************************************************)
(* Properties of the lobby.                                                *)
(***************************************************************************)
Position(pool, c) == CHOOSE i \in DOMAIN pool : pool[i] = c
Entries(pool) == {pool[i] : i \in DOMAIN pool}
Matched == server'.gameCounter # server.gameCounter

\* C36: the waiting pool never holds a client id twice; the pool is a
\* queue (a client that enters goes to the end, the clients that stay keep
\* their order); every match is made of the first two entries of the
\* pool, which are distinct clients and both leave the pool in the step of
\* the match, and nothing else starts a game.
C36_PoolPairsHeadOnce ==
  /\ [](\A i, j \in DOMAIN server.waitingPool :
          server.waitingPool[i] = server.waitingPool[j] => i = j)
  /\ [][LET pool == server.waitingPool
            after == server'.waitingPool
        IN  /\ \A a, b \in Entries(pool) \cap Entries(after) :
                 Position(pool, a) < Position(pool, b)
                   => Position(after, a) < Position(after, b)
            /\ \A a \in Entries(after) \ Entries(pool) :
                 Position(after, a) = Len(after)
            /\ Matched
                 => /\ Len(pool) >= 2
                    /\ pool[1] # pool[2]
                    /\ server'.started = Append(server.started, <<pool[1], pool[2]>>)
                    /\ server'.GameID[pool[1]] = server'.gameCounter
                    /\ server'.GameID[pool[2]] = server'.gameCounter
                    /\ Entries(after) = Entries(pool) \ {pool[1], pool[2]}
            /\ ~Matched
                 => /\ server'.started = server.started
                    /\ server'.GameID = server.GameID]_vars
\* a game has started while another client waits in the pool
C36_Witness ==
  /\ server.gameCounter >= 1
  /\ Len(server.waitingPool) >= 1

\* C37 as the specification states it: matchmaking never pairs a client
\* whose connection has ended.
C37_EndedNeverPaired ==
  [][Matched => {server.waitingPool[1], server.waitingPool[2]} \subseteq server.clients]_vars

\* C38 as the specification states it: no two connected clients carry the
\* same username, and only the client registered under a name is queued
\* or matched under it.
C38_OneClientPerName ==
  /\ \A u \in Usernames :
       Cardinality({c \in server.clients : server.Username[c] = u}) <= 1
  /\ \A c \in Entries(server.waitingPool) \cap server.clients :
       server.activeUsers[server.Username[c]] = c

\* C39 as the specification states it: the registry of active users holds
\* no entry for a client whose connection has ended.
C39_RegistryOnlyConnected ==
  \A u \in Usernames :
    server.activeUsers[u] # NoClient => server.activeUsers[u] \in server.clients

(***************************************************************************)
(* The level-up loop of handleGameOver, one iteration at a time, on        *)
(* records as a player file can hold them.                                 *)
(***************************************************************************)
FileLevels == (1 - MaxDeficit)..MaxStartLevel
FileExps == StoredExps \cup {100}

InitLoop ==
  /\ game = NewGame(1, 1)
  /\ offered = [p \in Players |-> {}]
  /\ aged = {}
  /\ uuid = 0
  /\ session = FALSE
  /\ ret = NoRet
  /\ mutex = Free
  /\ pc = [c \in Threads \cup {Starter} |-> "idle"]
  /\ args = [c \in Threads |-> NoArgs]
  /\ probe = NoProbe
  /\ resp = NoResp
  /\ playerData \in [Players -> [EXP : FileExps, Level : FileLevels]]
  /\ gameOver = [p \in Players |-> <<>>]
  /\ stalled = {}
  /\ server = NewServer

\* LoadPlayerData and "p1Data.EXP += p1ExpEarned": probe.out is the record
\* in memory
LoadAndCredit ==
  /\ probe = NoProbe
  /\ \E p \in Players : \E earned \in EarnedExps :
       probe' = [fn |-> "loop", opp |-> p,
                 out |-> [Level |-> playerData[p].Level, EXP |-> playerData[p].EXP + earned]]
  /\ UNCHANGED <<game, offered, aged, uuid, session, ret, threadVars, resp, playerData,
                 gameOver, stalled, server>>

\* one pass of "for { ... }" that levels up
LevelUpIteration ==
  /\ probe.fn = "loop"
  /\ LET requiredExp == CalculateRequiredExp(probe.out.Level)
     IN  /\ probe.out.EXP >= requiredExp
         /\ probe' = [probe EXCEPT !.out = [Level |-> probe.out.Level + 1,
                                            EXP |-> probe.out.EXP - requiredExp]]
  /\ UNCHANGED <<game, offered, aged, uuid, session, ret, threadVars, resp, playerData,
                 gameOver, stalled, server>>

\* the pass that breaks, and SavePlayerData
LevelUpBreak ==
  /\ probe.fn = "loop"
  /\ probe.out.EXP < CalculateRequiredExp(probe.out.Level)
  /\ probe' = [probe EXCEPT !.fn = "saved"]
  /\ playerData' = [playerData EXCEPT ![probe.opp] = probe.out]
  /\ UNCHANGED <<game, offered, aged, uuid, session, ret, threadVars, resp,
                 gameOver, stalled, server>>

NextLoop == LoadAndCredit \/ LevelUpIteration \/ LevelUpBreak

\* the goroutine that runs handleGameOver keeps running its loop
SpecLoop == InitLoop /\ [][NextLoop]_vars /\ WF_vars(LevelUpIteration \/ LevelUpBreak)

InLoop == probe.fn = "loop"
Saved == probe.fn = "saved"
Iteration == InLoop /\ probe'.fn = "loop" /\ probe'.out # probe.out

====
